---- MODULE Spec2Model ----
(***************************************************************************)
(* A model of the bhima cashflow report controller                         *)
(* (server/controllers/finance/reports/cashflow, src/unnamed/part_001),    *)
(* of the account-types API exercised by src/server/test/api/accountTypes  *)
(* and of the NotFound error class.                                        *)
(*                                                                         *)
(* Dates.  A 'YYYY-MM-DD' string is a triple <<y, m, d>>.  A JavaScript    *)
(* Date / Moment is an instant counted in hours since 1970-01-01T00:00Z.   *)
(* The server's time zone is a fixed offset of tz hours east of UTC.       *)
(* Moment(str) and the MySQL driver read a date as local midnight,         *)
(* new Date('YYYY-MM-DD') reads it as UTC midnight, and format(),          *)
(* getDate(), getMonth(), getYear() report the local calendar date.        *)
(***************************************************************************)
EXTENDS Integers, Sequences, FiniteSets, TLC

VARIABLES
  tz,        \* the server's offset from UTC, in hours
  wk,        \* getWeeks under test: its arguments and its return value
  ledger,    \* the general_ledger table
  accountTypes,  \* the account_type table: id -> type
  deletedTypes,  \* the ids DELETE /accounts/types/:id has removed
  api,           \* the last exchange of the account-types API
  cash,          \* the cash payments the by-service report reads
  data,          \* the data object of reportByService
  emptyCashValues,  \* the flag of reportByService
  pair,          \* the requests in progress together, each with its own chain
  store,         \* the glb and session objects allocated for them
  kit,           \* the form of a generic voucher kit
  modal,         \* the modal instance of the kit
  vm,            \* the view model of the stock-exit controller
  cache,         \* its AppCache('StockExit')
  ui,            \* its modals, requests, notifications and receipts
  req,       \* the request: route and query parameters
  pc,        \* where the request's promise chain stands
  pipeline,  \* the processing function the handler called
  glb,       \* the glb object of the processing function
  queries,   \* the database queries issued so far, in order
  rows,      \* what queryIncomeExpense returned
  chain,     \* the value the promise chain carries to its next callback
  session,   \* the session object of document
  response,  \* what was sent on res
  errors,    \* the errors raised to the error handler, in order
  failure,   \* the error a query or the renderer failed with
  trace      \* the stages that ran, in order

vars == <<tz, wk, ledger, accountTypes, deletedTypes, api, cash, data,
          emptyCashValues, pair, store, kit, modal, vm, cache, ui, req, pc, pipeline, glb, queries, rows, chain, session,
          response, errors, failure, trace>>

cashVars == <<req, pc, pipeline, glb, queries, rows, chain, session,
              response, errors, failure, trace, cash, data, emptyCashValues>>

\* the state of the requests in progress together
pairVars == <<pair, store>>

\* the state of a voucher kit
kitVars == <<kit, modal>>

\* the state of the stock-exit controller
exitVars == <<vm, cache, ui>>

\* what the account-types API and getWeeks leave alone
otherVars == <<cashVars, pairVars, kitVars, exitVars>>

typeVars == <<accountTypes, deletedTypes, api>>

\* what no step of report, weeklyReport and document changes
env == <<tz, wk, ledger, accountTypes, deletedTypes, api, cash, data, emptyCashValues,
        pairVars, kitVars, exitVars>>

\* what no step of reportByService changes
serviceEnv == <<tz, wk, ledger, accountTypes, deletedTypes, api, cash, glb, rows,
                chain, session, pairVars, kitVars, exitVars>>

----------------------------------------------------------------------------
(* Bounds of the model *)

\* number of consecutive days the arguments of getWeeks are drawn from
WeekWindow == 12

\* the offsets the server may run under (Bogota, UTC, Kinshasa)
TimeZones == {0 - 5, 0, 1}

----------------------------------------------------------------------------
(* Calendar arithmetic: what Moment and Date do with a date *)

HoursPerDay == 24
DaysPerWeek == 7

\* days since 1970-01-01 of the civil date <<y, m, d>>
DaysFromCivil(date) ==
  LET y   == IF date[2] <= 2 THEN date[1] - 1 ELSE date[1]
      era == y \div 400
      yoe == y - era * 400
      mp  == (date[2] + 9) % 12
      doy == (153 * mp + 2) \div 5 + date[3] - 1
      doe == yoe * 365 + yoe \div 4 - yoe \div 100 + doy
  IN era * 146097 + doe - 719468

\* the civil date <<y, m, d>> of a day number
CivilFromDays(z) ==
  LET zz  == z + 719468
      era == zz \div 146097
      doe == zz - era * 146097
      yoe == (doe - doe \div 1460 + doe \div 36524 - doe \div 146096) \div 365
      doy == doe - (365 * yoe + yoe \div 4 - yoe \div 100)
      mp  == (5 * doy + 2) \div 153
      d   == doy - (153 * mp + 2) \div 5 + 1
      m   == IF mp < 10 THEN mp + 3 ELSE mp - 9
      y   == yoe + era * 400
  IN <<IF m <= 2 THEN y + 1 ELSE y, m, d>>

\* 0 = Sunday ... 6 = Saturday (1970-01-01 was a Thursday)
DayOfWeek(z) == (z + 4) % DaysPerWeek

\* the local day number an instant falls on
LocalDay(t) == (t + tz) \div HoursPerDay

\* Moment('YYYY-MM-DD', 'YYYY-MM-DD'), Moment('YYYY-MM-DD'): local midnight
MomentParse(date) == HoursPerDay * DaysFromCivil(date) - tz

\* new Date('YYYY-MM-DD'): midnight UTC
NewDate(date) == HoursPerDay * DaysFromCivil(date)

\* Moment(t).format('YYYY-MM-DD'): the local calendar date
MomentFormat(t) == CivilFromDays(LocalDay(t))

\* Moment(t).startOf('week'): local midnight of the Sunday on or before t
StartOfWeek(t) ==
  LET day == LocalDay(t)
  IN HoursPerDay * (day - DayOfWeek(day)) - tz

\* Moment(t).endOf('week'): the last hour of the Saturday of t's week
EndOfWeek(t) == StartOfWeek(t) + DaysPerWeek * HoursPerDay - 1

----------------------------------------------------------------------------
(* getWeeks *)

\* the do ... while loop of getWeeks; inc stays 0, so every week is numbered 1
RECURSIVE getWeeksLoop(_, _, _)
getWeeksLoop(first, weeks, dateTo) ==
  LET f    == StartOfWeek(first)
      l    == EndOfWeek(f)
      w    == Append(weeks, [week |-> 1, start_date |-> <<f>>, end_date |-> <<l>>])
      next == f + DaysPerWeek * HoursPerDay
  IN IF next <= NewDate(dateTo) THEN getWeeksLoop(next, w, dateTo) ELSE w

getWeeks(dateFrom, dateTo) == getWeeksLoop(MomentParse(dateFrom), <<>>, dateTo)

----------------------------------------------------------------------------
(* JavaScript values *)

\* A date held by the program is either a 'YYYY-MM-DD' string, the triple
\* <<y, m, d>>, or a Date object, the one-element tuple <<instant>>.
IsDateString(v) == Len(v) = 3
JSDate(t) == <<t>>

\* new Date(v): a string is read as UTC midnight, a Date is copied
NewDateOf(v) == IF IsDateString(v) THEN NewDate(v) ELSE v[1]

\* Moment(v): a string is read as local midnight, a Date is wrapped
MomentOf(v) == IF IsDateString(v) THEN MomentParse(v) ELSE v[1]

\* Moment(v).format('YYYY-MM-DD').toString()
FormatDate(v) == MomentFormat(MomentOf(v))

\* new Date(str).getDate(), .getMonth() (0 = January), .getYear() (year - 1900)
GetDate(str) == CivilFromDays(LocalDay(NewDate(str)))[3]
GetMonth(str) == CivilFromDays(LocalDay(NewDate(str)))[2] - 1
GetYear(str) == CivilFromDays(LocalDay(NewDate(str)))[1] - 1900

\* the weekly query parameter is absent or one of the strings "0" and "1";
\* a non-empty string is truthy, parseInt of an absent parameter is NaN
WeeklyValues == {"absent", "0", "1"}
Truthy(weekly) == weekly # "absent"
ParseIntTruthy(weekly) == weekly = "1"

RECURSIVE SumSeq(_)
SumSeq(s) == IF s = <<>> THEN 0 ELSE Head(s) + SumSeq(Tail(s))

\* Array.prototype.indexOf, 1-based; 0 when absent
RECURSIVE IndexFrom(_, _, _)
IndexFrom(s, x, i) ==
  IF i > Len(s) THEN 0 ELSE IF s[i] = x THEN i ELSE IndexFrom(s, x, i + 1)

IndexOf(s, x) == IndexFrom(s, x, 1)

\* the elements of s whose own value did not occur earlier in s (_.uniq)
Uniq(s) ==
  LET keep == {i \in 1 .. Len(s) : IndexOf(s, s[i]) = i}
      RECURSIVE build(_)
      build(i) ==
        IF i > Len(s) THEN <<>>
        ELSE IF i \in keep THEN <<s[i]>> \o build(i + 1) ELSE build(i + 1)
  IN build(1)

----------------------------------------------------------------------------
(* The database *)

\* The period table: NumPeriods consecutive calendar months from January 2023,
\* with ids 1 .. NumPeriods.
NumPeriods == 15
FirstPeriodStart == <<2023, 1, 1>>

PeriodYear(i) == FirstPeriodStart[1] + (i - 1) \div 12
PeriodMonth(i) == ((i - 1) % 12) + 1

PeriodStart(i) == <<PeriodYear(i), PeriodMonth(i), 1>>

\* the day before the next month begins
PeriodEnd(i) == CivilFromDays(DaysFromCivil(PeriodStart(i + 1)) - 1)

\* a row of the period table as the driver returns it: DATE columns arrive as
\* Date objects at local midnight
PeriodRow(i) ==
  [id |-> i, number |-> PeriodMonth(i),
   start_date |-> JSDate(MomentParse(PeriodStart(i))),
   end_date |-> JSDate(MomentParse(PeriodEnd(i)))]

\* DATE(a) <= DATE(b) on 'YYYY-MM-DD' values
DateLE(a, b) == DaysFromCivil(a) <= DaysFromCivil(b)

\* the WHERE clause of getPeriods
PeriodMatches(i, dateFrom, dateTo) ==
  \/ DateLE(dateFrom, PeriodStart(i)) /\ DateLE(PeriodEnd(i), dateTo)
  \/ DateLE(PeriodStart(i), dateFrom) /\ DateLE(dateFrom, PeriodEnd(i))
  \/ DateLE(PeriodStart(i), dateTo) /\ DateLE(dateTo, PeriodEnd(i))

RECURSIVE getPeriodsFrom(_, _, _)
getPeriodsFrom(i, dateFrom, dateTo) ==
  IF i > NumPeriods THEN <<>>
  ELSE IF PeriodMatches(i, dateFrom, dateTo)
       THEN <<PeriodRow(i)>> \o getPeriodsFrom(i + 1, dateFrom, dateTo)
       ELSE getPeriodsFrom(i + 1, dateFrom, dateTo)

getPeriods(dateFrom, dateTo) == getPeriodsFrom(1, dateFrom, dateTo)

\* the transaction_type table: id -> text; two ids carry the same text
TransferOrigin == 10
TransactionTypeIds == {1, 2, 3, TransferOrigin}
TransactionTypeText(id) ==
  CASE id = 1 -> "CASH_PAYMENT"
    [] id = 2 -> "GENERIC_INCOME"
    [] id = 3 -> "GENERIC_INCOME"
    [] OTHER -> "TRANSFER"

\* the account of the cashbox the request names, and another account
CashAccount == 1
OtherAccount == 2

\* The transactions of the ledger: trans_id -> date, period and origin.
\* period_id 0 is NULL, origin_id 0 has no row in transaction_type.
Transactions ==
  << [trans_date |-> <<2023, 1, 15>>, period_id |-> 1, origin_id |-> 1],
     [trans_date |-> <<2023, 1, 20>>, period_id |-> 1, origin_id |-> 1],
     [trans_date |-> <<2023, 1, 20>>, period_id |-> 1, origin_id |-> 2],
     [trans_date |-> <<2023, 1, 25>>, period_id |-> 1, origin_id |-> 3],
     [trans_date |-> <<2023, 2, 10>>, period_id |-> 2, origin_id |-> 1],
     [trans_date |-> <<2023, 2, 10>>, period_id |-> 0, origin_id |-> 2],
     [trans_date |-> <<2024, 3, 10>>, period_id |-> 15, origin_id |-> 1],
     [trans_date |-> <<2023, 1, 15>>, period_id |-> 1, origin_id |-> TransferOrigin],
     [trans_date |-> <<2023, 1, 15>>, period_id |-> 1, origin_id |-> 0] >>

Line(t, account_id, referenced, debit, credit) ==
  [trans_id |-> t, account_id |-> account_id, referenced |-> referenced,
   debit_equiv |-> debit, credit_equiv |-> credit]

\* the general_ledger lines the tables of the model are built from: an income
\* line of the cashbox for each of the first six transactions, a line with
\* both amounts for the second and the fifth, a line of another account, a
\* line a transfer voucher refers to, a transfer
LedgerLines ==
  {Line(t, CashAccount, FALSE, 500, 0) : t \in 1 .. 6}
  \cup {Line(t, CashAccount, FALSE, 300, 400) : t \in {2, 5}}
  \cup {Line(1, OtherAccount, FALSE, 500, 0), Line(1, CashAccount, TRUE, 500, 0),
        Line(8, CashAccount, FALSE, 500, 0)}

\* number of lines of a general_ledger table
MaxLines == 2

RECURSIVE SeqsUpTo(_, _)
SeqsUpTo(S, n) ==
  IF n = 0 THEN {<<>>}
  ELSE LET shorter == SeqsUpTo(S, n - 1)
       IN shorter \cup {Append(s, x) : s \in {q \in shorter : Len(q) = n - 1}, x \in S}

\* every table of at most MaxLines lines
Ledgers == SeqsUpTo(LedgerLines, MaxLines)

\* four tables: an empty one; one with income 500 and expense 200 in January
\* 2023 and income 300 and expense 400 in February 2023; and one with a line
\* on each side of one transaction of March 2024, a line whose origin has no
\* transaction type, a line without a period and an income of January 2023;
\* and one with a line carrying both amounts and a line carrying none
SampleLedgers ==
  {<<>>,
   <<Line(1, CashAccount, FALSE, 500, 0), Line(3, CashAccount, FALSE, 0, 200),
     Line(5, CashAccount, FALSE, 300, 400)>>,
   <<Line(7, CashAccount, FALSE, 500, 0), Line(9, CashAccount, FALSE, 500, 0),
     Line(7, CashAccount, FALSE, 0, 200), Line(6, CashAccount, FALSE, 0, 200),
     Line(2, CashAccount, FALSE, 300, 0)>>,
   <<Line(1, CashAccount, FALSE, 300, 400), Line(2, CashAccount, FALSE, 0, 0)>>}

\* the inner SELECT of queryIncomeExpense: the lines of the account within the
\* dates, transfers and lines referenced by a transfer voucher left out
LedgerLineSelected(line, account_id, dateFrom, dateTo) ==
  /\ line.account_id = account_id
  /\ DateLE(dateFrom, Transactions[line.trans_id].trans_date)
  /\ DateLE(Transactions[line.trans_id].trans_date, dateTo)
  /\ Transactions[line.trans_id].origin_id # TransferOrigin
  /\ ~line.referenced

\* the join with transaction_type keeps the lines whose origin has a row there
LedgerLineJoined(line) == Transactions[line.trans_id].origin_id \in TransactionTypeIds

\* GROUP BY t.trans_id: one posting per transaction, in the order the
\* transactions first occur, with the equivalents summed
queryIncomeExpense(table, account_id, dateFrom, dateTo) ==
  LET lines == SelectSeq(table, LAMBDA l :
                 LedgerLineSelected(l, account_id, dateFrom, dateTo) /\ LedgerLineJoined(l))
      ids   == Uniq([i \in 1 .. Len(lines) |-> lines[i].trans_id])
      of(t) == SelectSeq(lines, LAMBDA l : l.trans_id = t)
  IN [k \in 1 .. Len(ids) |->
        [trans_id |-> ids[k],
         trans_date |-> JSDate(MomentParse(Transactions[ids[k]].trans_date)),
         period_id |-> Transactions[ids[k]].period_id,
         origin_id |-> Transactions[ids[k]].origin_id,
         transactionType |-> TransactionTypeText(Transactions[ids[k]].origin_id),
         label |-> "CASHBOX",
         debit_equiv |-> SumSeq([i \in 1 .. Len(of(ids[k])) |-> of(ids[k])[i].debit_equiv]),
         credit_equiv |-> SumSeq([i \in 1 .. Len(of(ids[k])) |-> of(ids[k])[i].credit_equiv])]]

----------------------------------------------------------------------------
(* Grouping and classification *)

\* a faulty variant of InPeriod: the test on period_id is left out
InPeriodUntested(p, f, weekly) ==
  IF Truthy(weekly)
  THEN /\ NewDateOf(f.trans_date) <= NewDateOf(p.end_date)
       /\ NewDateOf(f.trans_date) >= NewDateOf(p.start_date)
  ELSE TRUE

\* the test groupByPeriod applies to posting f for period p; a week has no id,
\* and undefined === f.period_id is false
InPeriod(p, f, weekly) ==
  IF Truthy(weekly)
  THEN /\ NewDateOf(f.trans_date) <= NewDateOf(p.end_date)
       /\ NewDateOf(f.trans_date) >= NewDateOf(p.start_date)
  ELSE "id" \in DOMAIN p /\ p.id = f.period_id

groupByPeriod(periods, flows, weekly) ==
  [i \in 1 .. Len(periods) |->
     [period |-> periods[i],
      flows |-> SelectSeq(flows, LAMBDA f : InPeriod(periods[i], f, weekly))]]

IsIncome(posting) == posting.debit_equiv > 0

\* a faulty variant of IsExpense: a posting is an income or else an expense
IsExpenseOnly(posting) == posting.credit_equiv > 0 /\ ~(posting.debit_equiv > 0)

IsExpense(posting) == posting.credit_equiv > 0

groupingIncomeExpenseByPeriod(periodicFlows) ==
  [i \in 1 .. Len(periodicFlows) |->
     [period |-> periodicFlows[i].period,
      incomes |-> SelectSeq(periodicFlows[i].flows, IsIncome),
      expenses |-> SelectSeq(periodicFlows[i].flows, IsExpense)]]

----------------------------------------------------------------------------
(* The report session of document *)

\* obj[key] = value on a JavaScript object used as a map
Put(obj, key, value) ==
  [k \in DOMAIN obj \cup {key} |-> IF k = key THEN value ELSE obj[k]]

EmptyObject == <<>>

\* the amount column each side of the report adds up
Debit == "debit_equiv"
Credit == "credit_equiv"

\* a faulty variant of RemoveDuplicates: nothing is filtered out
RemoveDuplicatesKeepingAll(list) == list

\* the filter "Removing duplicates": an element is kept when no earlier
\* element carries its transfer_type
RemoveDuplicates(list) ==
  LET types == [i \in 1 .. Len(list) |-> list[i].transfer_type]
      RECURSIVE build(_)
      build(i) ==
        IF i > Len(list) THEN <<>>
        ELSE IF IndexOf(types, types[i]) = i
             THEN <<list[i]>> \o build(i + 1)
             ELSE build(i + 1)
  IN build(1)

\* a faulty variant of OriginTotal: the reduce does not test the origin
OriginTotalOfAll(postings, origin_id, amount) ==
  SumSeq([j \in 1 .. Len(postings) |-> postings[j][amount]])

\* the reduce of groupingResult: the amounts of the postings of one origin
OriginTotal(postings, origin_id, amount) ==
  SumSeq([j \in 1 .. Len(postings) |->
            IF postings[j].origin_id = origin_id THEN postings[j][amount] ELSE 0])

\* one pushed entry per posting with an origin, then the duplicates removed
Summation(postings, amount) ==
  LET items == SelectSeq(postings, LAMBDA item : item.origin_id # 0)
  IN RemoveDuplicates(
       [i \in 1 .. Len(items) |->
          [transfer_type |-> items[i].transactionType,
           value |-> OriginTotal(postings, items[i].origin_id, amount)]])

\* expenses.lenght is undefined, so only the incomes ever name the account
groupingResult(ses, incomes, expenses, period) ==
  [ses EXCEPT
     !.summationIncome = Put(@, period, Summation(incomes, Debit)),
     !.summationExpense = Put(@, period, Summation(expenses, Credit)),
     !.accountName = IF @ = "" /\ Len(incomes) > 0 THEN incomes[1].label ELSE @]

isFirstPeriod(ses, period) ==
  LET reference == ses.periodStartArray[1]
  IN IF GetDate(reference) = 1 /\ GetMonth(reference) = 0
     THEN GetDate(period) = 1 /\ GetMonth(period) = 0
     ELSE /\ GetDate(period) = GetDate(reference)
          /\ GetMonth(period) = GetMonth(reference)
          /\ GetYear(period) = GetYear(reference)

previousPeriod(ses, period) ==
  LET currentIndex == IndexOf(ses.periodStartArray, FormatDate(period))
  IN IF currentIndex # 1
     THEN ses.periodStartArray[currentIndex - 1]
     ELSE ses.periodStartArray[currentIndex]

Values(list) == [i \in 1 .. Len(list) |-> list[i].value]
Types(list) == [i \in 1 .. Len(list) |-> list[i].transfer_type]

\* a faulty variant of summarization: the expense is added to the balance
summarizationAdding(ses, period) ==
  LET income  == SumSeq(Values(ses.summationIncome[period]))
      expense == SumSeq(Values(ses.summationExpense[period]))
      first   == isFirstPeriod(ses, period)
      before  == IF first THEN ses.openningBalance
                 ELSE ses.periodicBalance[previousPeriod(ses, period)]
  IN [ses EXCEPT
        !.sum_incomes = Put(@, period, income),
        !.sum_expense = Put(@, period, expense),
        !.incomesLabels = @ \o Types(ses.summationIncome[period]),
        !.expensesLabels = @ \o Types(ses.summationExpense[period]),
        !.periodicBalance = Put(@, period, (before + income) + expense),
        !.periodicOpenningBalance = Put(@, period, before)]

summarization(ses, period) ==
  LET income  == SumSeq(Values(ses.summationIncome[period]))
      expense == SumSeq(Values(ses.summationExpense[period]))
      first   == isFirstPeriod(ses, period)
      before  == IF first THEN ses.openningBalance
                 ELSE ses.periodicBalance[previousPeriod(ses, period)]
  IN [ses EXCEPT
        !.sum_incomes = Put(@, period, income),
        !.sum_expense = Put(@, period, expense),
        !.incomesLabels = @ \o Types(ses.summationIncome[period]),
        !.expensesLabels = @ \o Types(ses.summationExpense[period]),
        !.periodicBalance = Put(@, period, (before + income) - expense),
        !.periodicOpenningBalance = Put(@, period, before)]

initialization(ses) ==
  [ses EXCEPT
     !.incomes = EmptyObject, !.expenses = EmptyObject,
     !.summationIncome = EmptyObject, !.summationExpense = EmptyObject,
     !.sum_incomes = EmptyObject, !.sum_expense = EmptyObject,
     !.periodicBalance = EmptyObject, !.periodicOpenningBalance = EmptyObject,
     !.incomesLabels = <<>>, !.expensesLabels = <<>>,
     !.totalIncomes = EmptyObject, !.totalExpenses = EmptyObject]

RECURSIVE groupingAll(_, _)
groupingAll(ses, i) ==
  IF i > Len(ses.periodicData) THEN ses
  ELSE groupingAll(
         groupingResult(ses, ses.periodicData[i].incomes,
                        ses.periodicData[i].expenses,
                        FormatDate(ses.periodicData[i].period.start_date)),
         i + 1)

RECURSIVE summarizationAll(_, _)
summarizationAll(ses, i) ==
  IF i > Len(ses.periodicData) THEN ses
  ELSE summarizationAll(
         summarization(ses, FormatDate(ses.periodicData[i].period.start_date)),
         i + 1)

reporting(ses, result) ==
  LET s1 == [initialization(ses) EXCEPT
               !.periodicData = result.flows,
               !.openningBalance = result.openningBalance.balance]
      s2 == groupingAll(s1, 1)
      s3 == [s2 EXCEPT !.periodStartArray =
               [i \in 1 .. Len(s2.periodicData) |->
                  FormatDate(s2.periodicData[i].period.start_date)]]
      s4 == summarizationAll(s3, 1)
  IN [s4 EXCEPT !.periodRange =
        [i \in 1 .. Len(s4.periodicData) |->
           [start |-> FormatDate(s4.periodicData[i].period.start_date),
            end |-> FormatDate(s4.periodicData[i].period.end_date)]]]

\* a faulty variant of LabelRow: a label the period lacks is given the value 0
LabelRowZeroFilled(labels, list) ==
  [label \in {labels[i] : i \in 1 .. Len(labels)} |->
     IF \E j \in 1 .. Len(list) : list[j].transfer_type = label
     THEN list[CHOOSE j \in 1 .. Len(list) :
                 /\ list[j].transfer_type = label
                 /\ \A k \in (j + 1) .. Len(list) : list[k].transfer_type # label].value
     ELSE 0]

\* the result of one period: label -> value for the labels the period has
LabelRow(labels, list) ==
  [label \in {labels[i] : i \in 1 .. Len(labels)} \cap
             {list[j].transfer_type : j \in 1 .. Len(list)} |->
     list[CHOOSE j \in 1 .. Len(list) :
            /\ list[j].transfer_type = label
            /\ \A k \in (j + 1) .. Len(list) : list[k].transfer_type # label].value]

labelization(ses) ==
  LET incomesLabels == Uniq(ses.incomesLabels)
      expensesLabels == Uniq(ses.expensesLabels)
      periods == {ses.periodStartArray[i] : i \in 1 .. Len(ses.periodStartArray)}
  IN [ses EXCEPT
        !.incomesLabels = incomesLabels,
        !.expensesLabels = expensesLabels,
        !.incomes = [p \in periods |-> LabelRow(incomesLabels, ses.summationIncome[p])],
        !.totalIncomes = [p \in periods |-> SumSeq(Values(ses.summationIncome[p]))],
        !.expenses = [p \in periods |-> LabelRow(expensesLabels, ses.summationExpense[p])],
        !.totalExpenses = [p \in periods |-> SumSeq(Values(ses.summationExpense[p]))]]

----------------------------------------------------------------------------
(* The tables and the queries of reportByService *)

\* the service table: id -> name, and the names in alphabetical order
ServiceIds == {1, 2, 3}
ServiceName(id) ==
  CASE id = 1 -> "Surgery"
    [] id = 2 -> "Administration"
    [] OTHER -> "Medicine"
ServiceNamesInOrder == <<"Administration", "Medicine", "Surgery">>

\* a cash payment joined with its invoice, its patient and its service; the
\* number in reference stands for the string 'CP.<project>.<number>'
Payment(reference, date, amount, service_id, is_caution, reversed) ==
  [reference |-> reference, date |-> date, cashAmount |-> amount,
   invoiceAmount |-> amount, service_id |-> service_id,
   display_name |-> IF reference % 2 = 0 THEN "Patient A" ELSE "Patient B",
   name |-> ServiceName(service_id), is_caution |-> is_caution, reversed |-> reversed]

\* the payments the cash tables of the model are built from
Payments ==
  {Payment(1, <<2024, 3, 6>>, 10, 1, 0, 0),
   Payment(2, <<2024, 3, 5>>, 25, 2, 0, 0),
   Payment(3, <<2024, 3, 6>>, 40, 1, 0, 0),
   Payment(4, <<2024, 3, 8>>, 0, 3, 0, 0),
   Payment(5, <<2024, 3, 6>>, 70, 3, 1, 0),
   Payment(6, <<2024, 3, 6>>, 90, 2, 0, 1),
   Payment(10, <<2024, 3, 6>>, 5, 2, 0, 0)}

\* number of rows of a cash table
MaxPayments == 2

\* the tables of at most MaxPayments different payments, in insertion order
CashTables ==
  {t \in SeqsUpTo(Payments, MaxPayments) :
     \A a, b \in 1 .. Len(t) : a # b => t[a].reference # t[b].reference}

\* the driver writes a Date parameter as local time, and DATE() keeps its day
SqlDate(v) == FormatDate(v)

\* the order of two reference strings that differ in their number only: the
\* decimal digits compare as characters ('10' sorts before '9'); numbers
\* below 100
Digits(n) == IF n < 10 THEN <<n>> ELSE <<n \div 10, n % 10>>
ReferenceBefore(m, n) ==
  \/ Digits(m)[1] < Digits(n)[1]
  \/ /\ Digits(m)[1] = Digits(n)[1]
     /\ \/ Len(Digits(m)) < Len(Digits(n))
        \/ Len(Digits(m)) = 2 /\ Len(Digits(n)) = 2 /\ Digits(m)[2] < Digits(n)[2]

\* ORDER BY date, reference of the outer query
PaymentBefore(a, b) ==
  \/ DaysFromCivil(a.date) < DaysFromCivil(b.date)
  \/ a.date = b.date /\ ReferenceBefore(a.reference, b.reference)

RECURSIVE OrderPayments(_)
OrderPayments(payments) ==
  IF payments = {} THEN <<>>
  ELSE LET first == CHOOSE p \in payments :
                      \A q \in payments \ {p} : PaymentBefore(p, q)
       IN <<first>> \o OrderPayments(payments \ {first})

\* the WHERE clause the cash query and the aggregation query share
PaymentSelected(payment, dateFrom, dateTo) ==
  /\ payment.is_caution = 0 /\ payment.reversed = 0
  /\ DateLE(SqlDate(dateFrom), payment.date)
  /\ DateLE(payment.date, SqlDate(dateTo))

SelectedPayments(table, dateFrom, dateTo) ==
  OrderPayments({table[k] : k \in {j \in 1 .. Len(table) :
                                    PaymentSelected(table[j], dateFrom, dateTo)}})

\* a faulty variant of WithCumsum: the variable is not accumulated
WithAmountOnly(ordered, cumsum) ==
  [i \in 1 .. Len(ordered) |->
     [reference |-> ordered[i].reference, date |-> ordered[i].date,
      cashAmount |-> ordered[i].cashAmount, invoiceAmount |-> ordered[i].invoiceAmount,
      service_id |-> ordered[i].service_id, display_name |-> ordered[i].display_name,
      name |-> ordered[i].name, cumsum |-> cumsum + ordered[i].cashAmount]]

\* (@cumsum := cashAmount + @cumsum), evaluated as the ordered rows are sent
RECURSIVE WithCumsum(_, _)
WithCumsum(ordered, cumsum) ==
  IF ordered = <<>> THEN <<>>
  ELSE LET row == Head(ordered)
       IN <<[reference |-> row.reference, date |-> row.date,
             cashAmount |-> row.cashAmount, invoiceAmount |-> row.invoiceAmount,
             service_id |-> row.service_id, display_name |-> row.display_name,
             name |-> row.name, cumsum |-> cumsum + row.cashAmount]>>
          \o WithCumsum(Tail(ordered), cumsum + row.cashAmount)

cashflowByServiceSql(table, dateFrom, dateTo) ==
  WithCumsum(SelectedPayments(table, dateFrom, dateTo), 0)

\* SELECT DISTINCT service.name ... WHERE service.id IN (?) ORDER BY name
serviceSql(serviceIds) ==
  LET names == SelectSeq(ServiceNamesInOrder,
                 LAMBDA n : \E i \in 1 .. Len(serviceIds) : ServiceName(serviceIds[i]) = n)
  IN [i \in 1 .. Len(names) |-> [name |-> names[i]]]

\* SUM(cash.amount), SUM(invoice.cost) ... GROUP BY service.name ORDER BY service.name
serviceAggregationSql(table, dateFrom, dateTo) ==
  LET selected == SelectedPayments(table, dateFrom, dateTo)
      names == SelectSeq(ServiceNamesInOrder,
                 LAMBDA n : \E i \in 1 .. Len(selected) : selected[i].name = n)
  IN [i \in 1 .. Len(names) |->
        [name |-> names[i],
         totalCashIncome |->
           SumSeq([k \in 1 .. Len(selected) |->
                     IF selected[k].name = names[i] THEN selected[k].cashAmount ELSE 0]),
         totalAcruelIncome |->
           SumSeq([k \in 1 .. Len(selected) |->
                     IF selected[k].name = names[i] THEN selected[k].invoiceAmount ELSE 0])]]

\* the cells of a matrix line
Null == [cell |-> "null"]
Text(string) == [cell |-> "text", text |-> string]
Number(n) == [cell |-> "number", number |-> n]

\* rows.map(row => line): xAxis + 3 cells, null but for the reference, the
\* patient, the amount under the row's service and the running total
MatrixLine(row, services) ==
  LET xAxis == Len(services)
      idx == (IndexOf(services, row.name) - 1) + 2
  IN [j \in 1 .. (xAxis + 3) |->
        IF j - 1 = xAxis + 2 THEN Number(row.cumsum)
        ELSE IF j - 1 = idx THEN Number(row.cashAmount)
        ELSE IF j - 1 = 0 THEN Number(row.reference)
        ELSE IF j - 1 = 1 THEN Text(row.display_name)
        ELSE Null]

\* delete obj[key]
Delete(obj, key) == [k \in DOMAIN obj \ {key} |-> obj[k]]

----------------------------------------------------------------------------
(* Errors *)

\* new BadRequest(description, code): an HTTP 400 with a translatable code
BadRequest(code) == [name |-> "BadRequest", status |-> 400, code |-> code]

\* what a rejected db.exec, a failed render or a throwing ReportManager hands on
DbError == [name |-> "Error", status |-> 500, code |-> "DB"]
RenderError == [name |-> "Error", status |-> 500, code |-> "RENDER"]

NoError == [name |-> "none", status |-> 0, code |-> ""]

\* an exception leaving the route handler reaches the error handler through
\* the router; a rejection reaches it through .catch(next)
Thrown(err) == [via |-> "throw", err |-> err]
PassedToNext(err) == [via |-> "next", err |-> err]

----------------------------------------------------------------------------
(* The cashflow request *)

Routes == {"report", "weeklyReport", "document"}

\* the (dateFrom, dateTo) pairs a request may name: two calendar months from
\* a 1 January, thirteen months from a 1 January, a range inside one month
\* that starts on a Tuesday and the same range reversed, a range before the
\* first period, a range from one posting date to another, and a range that
\* ends on a Sunday
RequestRanges ==
  {<< <<2023, 1, 1>>, <<2023, 2, 28>> >>,
   << <<2023, 1, 1>>, <<2024, 1, 31>> >>,
   << <<2024, 3, 5>>, <<2024, 3, 20>> >>,
   << <<2024, 3, 20>>, <<2024, 3, 5>> >>,
   << <<2022, 6, 15>>, <<2022, 6, 20>> >>,
   << <<2023, 1, 15>>, <<2023, 2, 10>> >>,
   << <<2024, 3, 5>>, <<2024, 3, 10>> >>}

\* account_id 0 stands for a request without account_id
Requests ==
  {[route |-> route, account_id |-> account_id, dateFrom |-> range[1],
    dateTo |-> range[2], weekly |-> weekly] :
     route \in Routes, account_id \in {0, CashAccount},
     range \in RequestRanges, weekly \in WeeklyValues}
  \ {r \in [route : {"report", "weeklyReport"}, account_id : {0, CashAccount},
             dateFrom : {p[1] : p \in RequestRanges},
             dateTo : {p[2] : p \in RequestRanges}, weekly : WeeklyValues] :
        \/ r.route = "report" /\ r.weekly # "absent"
        \/ r.route = "weeklyReport" /\ r.weekly = "0"}

\* what AccountsExtra.getOpeningBalanceForDate may answer; 0 is no balance
OpeningBalances == {0, 100}

NoSession == [used |-> FALSE]
NoExchange == [method |-> "none", id |-> 0, status |-> 0, body |-> <<>>]

\* the account-types API is not exercised
NoAccountTypes ==
  /\ accountTypes = <<>>
  /\ deletedTypes = {}
  /\ api = NoExchange
NoResponse == [kind |-> "none"]

\* no requests are in progress together
NoPair ==
  /\ pair = <<>>
  /\ store = <<>>

\* no stock-exit controller is instantiated
NoExit ==
  /\ vm = [controller |-> "none"]
  /\ cache = [depot |-> "undefined"]
  /\ ui = [view |-> "none"]

\* no voucher kit is open
NoKit ==
  /\ kit = [tool |-> "none"]
  /\ modal = [open |-> FALSE]

\* params.dateFrom and params.dateTo after Moment(...).format('YYYY-MM-DD')
DateFrom == FormatDate(req.dateFrom)
DateTo == FormatDate(req.dateTo)

\* document chooses the pipeline by parseInt(params.weekly, 10)
CallsWeekly ==
  \/ req.route = "weeklyReport"
  \/ req.route = "document" /\ ParseIntTruthy(req.weekly)

\* the third argument groupByPeriod receives
WeeklyArgument == IF pipeline = "weekly" THEN req.weekly ELSE "absent"

\* the session object document fills for a request before the pipeline starts
SessionFor(query) ==
  [used |-> TRUE, dateFrom |-> query.dateFrom, dateTo |-> query.dateTo,
   weekly |-> IF query.weekly = "absent" THEN "NaN" ELSE query.weekly,
   accountName |-> "", periodicData |-> <<>>, openningBalance |-> 0,
   periodStartArray |-> <<>>, periodRange |-> <<>>,
   incomes |-> EmptyObject, expenses |-> EmptyObject,
   summationIncome |-> EmptyObject, summationExpense |-> EmptyObject,
   sum_incomes |-> EmptyObject, sum_expense |-> EmptyObject,
   periodicBalance |-> EmptyObject, periodicOpenningBalance |-> EmptyObject,
   incomesLabels |-> <<>>, expensesLabels |-> <<>>,
   totalIncomes |-> EmptyObject, totalExpenses |-> EmptyObject]

NewSession == SessionFor(req)

InitRequest ==
  /\ pc = "start"
  /\ pipeline = "none"
  /\ glb = [periods |-> <<>>, openningBalance |-> [balance |-> 0]]
  /\ queries = <<>>
  /\ rows = <<>>
  /\ chain = <<>>
  /\ session = NoSession
  /\ response = NoResponse
  /\ errors = <<>>
  /\ failure = NoError
  /\ trace = <<>>
  /\ data = EmptyObject
  /\ emptyCashValues = FALSE
  /\ NoPair
  /\ NoKit
  /\ NoExit

\* the requests every ledger table is tried with: a document with a cashbox,
\* by month over the two months that hold the postings and by week over the
\* days from the first posting to the last
LedgerRequests ==
  {r \in Requests :
     /\ r.route = "document" /\ r.account_id # 0
     /\ \/ /\ r.weekly = "absent"
           /\ <<r.dateFrom, r.dateTo>> = << <<2023, 1, 1>>, <<2023, 2, 28>> >>
        \/ /\ r.weekly = "1"
           /\ <<r.dateFrom, r.dateTo>> = << <<2023, 1, 15>>, <<2023, 2, 10>> >>}

\* the by-service requests: a range that holds payments, one day, a range
\* without any payment
ServiceRanges ==
  {<< <<2024, 3, 5>>, <<2024, 3, 20>> >>,
   << <<2024, 3, 6>>, <<2024, 3, 6>> >>,
   << <<2022, 6, 15>>, <<2022, 6, 20>> >>}

\* reportByService reads dateFrom and dateTo only
ServiceRequests ==
  {[route |-> "byService", account_id |-> CashAccount, dateFrom |-> range[1],
    dateTo |-> range[2], weekly |-> "absent"] : range \in ServiceRanges}

\* every request over the sample tables, the ledger requests over every table
\* and the by-service requests over every cash table
Init ==
  /\ tz \in TimeZones
  /\ wk = [called |-> FALSE]
  /\ \/ req \in Requests /\ ledger \in SampleLedgers /\ cash = <<>>
     \/ req \in LedgerRequests /\ ledger \in Ledgers /\ cash = <<>>
     \/ req \in ServiceRequests /\ ledger = <<>> /\ cash \in CashTables
  /\ InitRequest
  /\ NoAccountTypes

\* document and reportByService: new ReportManager(...) throws; next(e); return
ReportManagerFails ==
  /\ pc = "start"
  /\ req.route \in {"document", "byService"}
  /\ pc' = "done"
  /\ errors' = Append(errors, PassedToNext(RenderError))
  /\ UNCHANGED <<env, req, pipeline, glb, queries, rows, chain, session, response,
                 failure, trace>>

\* a faulty variant of StartCalendar: the account_id test is left out
StartCalendarUnchecked ==
  /\ pc = "start"
  /\ req.route \in {"report", "document"}
  /\ ~CallsWeekly
  /\ pipeline' = "calendar"
  /\ session' = IF req.route = "document" THEN NewSession ELSE session
  /\ queries' = Append(queries, [q |-> "getPeriods", args |-> <<DateFrom, DateTo>>])
  /\ pc' = "periods"
  /\ UNCHANGED errors
  /\ UNCHANGED <<env, req, glb, rows, chain, response, failure, trace>>

\* report, or document without a weekly number: processingCashflowReport up to
\* its first query
StartCalendar ==
  /\ pc = "start"
  /\ req.route \in {"report", "document"}
  /\ ~CallsWeekly
  /\ pipeline' = "calendar"
  /\ session' = IF req.route = "document" THEN NewSession ELSE session
  /\ IF req.account_id = 0
     THEN /\ errors' = Append(errors, Thrown(BadRequest("ERRORS.BAD_REQUEST")))
          /\ pc' = "done"
          /\ UNCHANGED queries
     ELSE /\ queries' = Append(queries, [q |-> "getPeriods", args |-> <<DateFrom, DateTo>>])
          /\ pc' = "periods"
          /\ UNCHANGED errors
  /\ UNCHANGED <<env, req, glb, rows, chain, response, failure, trace>>

\* a faulty variant of WeeklyPeriods: the first week keeps its aligned start
WeeklyPeriodsAligned == getWeeks(DateFrom, DateTo)

\* the weeks processingWeekCashflow keeps: the first one starts at dateFrom
WeeklyPeriods ==
  LET weeks == getWeeks(DateFrom, DateTo)
  IN [weeks EXCEPT ![1].start_date = DateFrom]

\* weeklyReport, or document with a weekly number: processingWeekCashflow up to
\* its first query
StartWeekly ==
  /\ pc = "start"
  /\ CallsWeekly
  /\ pipeline' = "weekly"
  /\ session' = IF req.route = "document" THEN NewSession ELSE session
  /\ IF req.account_id = 0
     THEN /\ errors' = Append(errors, Thrown(BadRequest("ERRORS.BAD_REQUEST")))
          /\ pc' = "done"
          /\ UNCHANGED <<queries, glb>>
     ELSE IF Len(getWeeks(DateFrom, DateTo)) = 0
     THEN /\ errors' = Append(errors, Thrown(BadRequest("ERRORS.BAD_DATE_INTERVAL")))
          /\ pc' = "done"
          /\ UNCHANGED <<queries, glb>>
     ELSE /\ glb' = [glb EXCEPT !.periods = WeeklyPeriods]
          /\ queries' = Append(queries,
               [q |-> "getOpeningBalanceForDate",
                args |-> <<req.account_id, WeeklyPeriods[1].start_date>>])
          /\ pc' = "balance"
          /\ UNCHANGED errors
  /\ UNCHANGED <<env, req, rows, chain, response, failure, trace>>

\* the callback of getPeriods
PeriodsReply ==
  /\ pc = "periods"
  /\ LET periods == getPeriods(DateFrom, DateTo)
     IN IF Len(periods) = 0
        THEN /\ errors' = Append(errors, PassedToNext(BadRequest("ERRORS.BAD_DATE_INTERVAL")))
             /\ pc' = "done"
             /\ UNCHANGED <<glb, queries>>
        ELSE /\ glb' = [glb EXCEPT !.periods = periods]
             /\ queries' = Append(queries,
                  [q |-> "getOpeningBalanceForDate",
                   args |-> <<req.account_id, periods[1].start_date>>])
             /\ pc' = "balance"
             /\ UNCHANGED errors
  /\ UNCHANGED <<env, req, pipeline, rows, chain, session, response, failure, trace>>

\* the callback of getOpeningBalanceForDate; either pipeline ends up with an
\* object whose balance field holds the amount
BalanceReply ==
  /\ pc = "balance"
  /\ \E balance \in OpeningBalances :
       glb' = [glb EXCEPT !.openningBalance =
                 IF pipeline = "weekly"
                 THEN [balance |-> balance, account_id |-> req.account_id]
                 ELSE [balance |-> balance]]
  /\ queries' = Append(queries,
       [q |-> "queryIncomeExpense", args |-> <<req.account_id, DateFrom, DateTo>>])
  /\ pc' = "ledger"
  /\ UNCHANGED <<env, req, pipeline, rows, chain, session, response, errors, failure, trace>>

\* the callback of queryIncomeExpense: groupByPeriod
LedgerReply ==
  /\ pc = "ledger"
  /\ LET result == queryIncomeExpense(ledger, req.account_id, DateFrom, DateTo)
     IN /\ rows' = result
        /\ chain' = groupByPeriod(glb.periods, result, WeeklyArgument)
  /\ trace' = Append(trace, "groupByPeriod")
  /\ pc' = "grouped"
  /\ UNCHANGED <<env, req, pipeline, glb, queries, session, response, errors, failure>>

\* .then(groupingIncomeExpenseByPeriod)
Classify ==
  /\ pc = "grouped"
  /\ chain' = groupingIncomeExpenseByPeriod(chain)
  /\ trace' = Append(trace, "groupingIncomeExpenseByPeriod")
  /\ pc' = "classified"
  /\ UNCHANGED <<env, req, pipeline, glb, queries, rows, session, response, errors, failure>>

\* the last callback of the processing function builds its result
Resolve ==
  /\ pc = "classified"
  /\ chain' = [openningBalance |-> glb.openningBalance, flows |-> chain]
  /\ pc' = "resolved"
  /\ UNCHANGED <<env, req, pipeline, glb, queries, rows, session, response, errors,
                 failure, trace>>

\* report and weeklyReport: res.status(200).json(result)
Respond ==
  /\ pc = "resolved"
  /\ req.route # "document"
  /\ response' = [kind |-> "json", status |-> 200, body |-> chain]
  /\ pc' = "done"
  /\ UNCHANGED <<env, req, pipeline, glb, queries, rows, chain, session, errors,
                 failure, trace>>

\* document: .then(reporting)
Reporting ==
  /\ pc = "resolved"
  /\ req.route = "document"
  /\ session' = reporting(session, chain)
  /\ trace' = Append(trace, "reporting")
  /\ pc' = "reported"
  /\ UNCHANGED <<env, req, pipeline, glb, queries, rows, chain, response, errors, failure>>

\* document: .then(labelization)
Labelization ==
  /\ pc = "reported"
  /\ session' = labelization(session)
  /\ trace' = Append(trace, "labelization")
  /\ pc' = "labelled"
  /\ UNCHANGED <<env, req, pipeline, glb, queries, rows, chain, response, errors, failure>>

\* document: .then(() => documentReport.render(session))
Render ==
  /\ pc = "labelled"
  /\ trace' = Append(trace, "render")
  /\ pc' = "rendering"
  /\ UNCHANGED <<env, req, pipeline, glb, queries, rows, chain, session, response,
                 errors, failure>>

\* document: res.set(result.headers).send(result.report)
Send ==
  /\ pc = "rendering"
  /\ req.route = "document"
  /\ response' = [kind |-> "document", status |-> 200, body |-> session]
  /\ pc' = "done"
  /\ UNCHANGED <<env, req, pipeline, glb, queries, rows, chain, session, errors,
                 failure, trace>>

\* a faulty variant of Catch: the chain has no .catch(next)
CatchNothing(err) ==
  /\ failure' = err
  /\ pc' = "done"
  /\ UNCHANGED <<env, req, pipeline, glb, queries, rows, chain, session, response,
                 errors, trace>>

\* .catch(next): the rejection skips every callback left and reaches next
Catch(err) ==
  /\ failure' = err
  /\ errors' = Append(errors, PassedToNext(err))
  /\ pc' = "done"
  /\ UNCHANGED <<env, req, pipeline, glb, queries, rows, chain, session, response, trace>>

\* reportByService: the dates of the request as Date objects
ServiceDateFrom == JSDate(NewDateOf(req.dateFrom))
ServiceDateTo == JSDate(NewDateOf(req.dateTo))

\* a faulty variant of StartByService: the aggregates, which depend on the
\* dates only, are asked for together with the cash rows
StartByServiceFanOut ==
  /\ pc = "start"
  /\ req.route = "byService"
  /\ pipeline' = "byService"
  /\ data' = Put(Put(EmptyObject, "dateFrom", ServiceDateFrom), "dateTo", ServiceDateTo)
  /\ emptyCashValues' = FALSE
  /\ queries' = queries \o
       <<[q |-> "cashflowByServiceSql", args |-> <<ServiceDateFrom, ServiceDateTo>>],
         [q |-> "serviceAggregationSql", args |-> <<ServiceDateFrom, ServiceDateTo>>]>>
  /\ pc' = "cash"
  /\ UNCHANGED <<serviceEnv, req, response, errors, failure, trace>>

\* reportByService up to its first query
StartByService ==
  /\ pc = "start"
  /\ req.route = "byService"
  /\ pipeline' = "byService"
  /\ data' = Put(Put(EmptyObject, "dateFrom", ServiceDateFrom), "dateTo", ServiceDateTo)
  /\ emptyCashValues' = FALSE
  /\ queries' = Append(queries,
       [q |-> "cashflowByServiceSql", args |-> <<ServiceDateFrom, ServiceDateTo>>])
  /\ pc' = "cash"
  /\ UNCHANGED <<serviceEnv, req, response, errors, failure, trace>>

\* rows.map(row => row.service_id).filter(first occurrence)
ServiceIdsOf(result) == Uniq([i \in 1 .. Len(result) |-> result[i].service_id])

\* a faulty variant of CashReply: the service names are asked for even when
\* there is no row
CashReplyAlwaysQuerying ==
  /\ pc = "cash"
  /\ LET result == cashflowByServiceSql(cash, ServiceDateFrom, ServiceDateTo)
     IN /\ data' = Put(data, "rows", result)
        /\ emptyCashValues' = (Len(result) = 0)
        /\ queries' = Append(queries,
             [q |-> "serviceSql", args |-> <<ServiceIdsOf(result)>>])
        /\ pc' = "services"
  /\ UNCHANGED <<serviceEnv, req, pipeline, response, errors, failure, trace>>

\* the callback of the cash query
CashReply ==
  /\ pc = "cash"
  /\ LET result == cashflowByServiceSql(cash, ServiceDateFrom, ServiceDateTo)
     IN /\ data' = Put(data, "rows", result)
        /\ IF Len(result) = 0
           THEN /\ emptyCashValues' = TRUE
                /\ pc' = "noServices"
                /\ UNCHANGED queries
           ELSE /\ queries' = Append(queries,
                     [q |-> "serviceSql", args |-> <<ServiceIdsOf(result)>>])
                /\ pc' = "services"
                /\ UNCHANGED emptyCashValues
  /\ UNCHANGED <<serviceEnv, req, pipeline, response, errors, failure, trace>>

\* the second callback: the matrix, or nothing when emptyCashValues is set
ServicesReply ==
  /\ pc \in {"services", "noServices"}
  /\ IF emptyCashValues
     THEN /\ pc' = "noAggregates"
          /\ UNCHANGED <<data, queries>>
     ELSE LET result == data.rows
              names == serviceSql(ServiceIdsOf(result))
              services == [i \in 1 .. Len(names) |-> names[i].name]
              matrix == [i \in 1 .. Len(result) |-> MatrixLine(result[i], services)]
          IN /\ data' = Put(Put(Delete(data, "rows"), "services", services),
                            "matrix", matrix)
             /\ queries' = Append(queries,
                  [q |-> "serviceAggregationSql",
                   args |-> <<ServiceDateFrom, ServiceDateTo>>])
             /\ pc' = "aggregates"
  /\ UNCHANGED <<serviceEnv, req, pipeline, emptyCashValues, response, errors,
                 failure, trace>>

\* aggregates.push({ totalCashIncome : lastRow[lastRowTotalIdx] })
GrandTotal(matrix) ==
  LET lastRow == matrix[Len(matrix)]
  IN [totalCashIncome |-> lastRow[Len(lastRow)].number]

\* the third callback: the aggregates and the grand total, then the rendering
AggregatesReply ==
  /\ pc \in {"aggregates", "noAggregates"}
  /\ LET aggregates ==
           IF pc = "aggregates"
           THEN serviceAggregationSql(cash, ServiceDateFrom, ServiceDateTo)
           ELSE <<>>
     IN data' = Put(data, "aggregates",
                    IF "matrix" \in DOMAIN data
                    THEN Append(aggregates, GrandTotal(data.matrix))
                    ELSE aggregates)
  /\ trace' = Append(trace, "render")
  /\ pc' = "rendering"
  /\ UNCHANGED <<serviceEnv, req, pipeline, emptyCashValues, queries, response,
                 errors, failure>>

\* reportByService: res.set(result.headers).send(result.report)
ServiceSend ==
  /\ pc = "rendering"
  /\ req.route = "byService"
  /\ response' = [kind |-> "document", status |-> 200, body |-> data]
  /\ pc' = "done"
  /\ UNCHANGED <<serviceEnv, req, pipeline, data, emptyCashValues, queries, errors,
                 failure, trace>>

\* a query of the pipeline is rejected
QueryFails ==
  /\ pc \in {"periods", "balance", "ledger", "cash", "services", "aggregates"}
  /\ Catch(DbError)

\* documentReport.render or serviceReport.render is rejected
RenderFails ==
  /\ pc = "rendering"
  /\ Catch(RenderError)

Next ==
  \/ ReportManagerFails
  \/ StartCalendar
  \/ StartWeekly
  \/ PeriodsReply
  \/ BalanceReply
  \/ LedgerReply
  \/ Classify
  \/ Resolve
  \/ Respond
  \/ Reporting
  \/ Labelization
  \/ Render
  \/ Send
  \/ StartByService
  \/ CashReply
  \/ ServicesReply
  \/ AggregatesReply
  \/ ServiceSend
  \/ QueryFails
  \/ RenderFails

Spec == Init /\ [][Next]_vars

----------------------------------------------------------------------------
(* The period resolver on its own: getWeeks applied to drawn arguments *)

WeekBase == DaysFromCivil(<<2024, 3, 1>>)

WeekDates == {CivilFromDays(WeekBase + i) : i \in 0 .. (WeekWindow - 1)}

\* no request is in progress
NoRequest ==
  /\ pc = "idle"
  /\ req = [route |-> "none"]
  /\ pipeline = "none"
  /\ glb = [periods |-> <<>>, openningBalance |-> [balance |-> 0]]
  /\ queries = <<>>
  /\ rows = <<>>
  /\ chain = <<>>
  /\ session = NoSession
  /\ response = NoResponse
  /\ errors = <<>>
  /\ failure = NoError
  /\ trace = <<>>
  /\ cash = <<>>
  /\ data = EmptyObject
  /\ emptyCashValues = FALSE

Idle ==
  /\ NoRequest
  /\ NoPair
  /\ NoKit
  /\ NoExit

InitWeeks ==
  /\ tz \in TimeZones
  /\ wk = [called |-> FALSE]
  /\ ledger = <<>>
  /\ Idle
  /\ NoAccountTypes

CallGetWeeks ==
  /\ ~wk.called
  /\ \E dateFrom \in WeekDates, dateTo \in WeekDates :
       wk' = [called |-> TRUE, dateFrom |-> dateFrom, dateTo |-> dateTo,
              weeks |-> getWeeks(dateFrom, dateTo)]
  /\ UNCHANGED <<tz, ledger>>
  /\ UNCHANGED typeVars
  /\ UNCHANGED otherVars

NextWeeks == CallGetWeeks

SpecWeeks == InitWeeks /\ [][NextWeeks]_vars

----------------------------------------------------------------------------
(* The account-types API, as the tests of server/test/api/accountTypes.js  *)
(* exercise it; its controller is not among the sources, so the handlers   *)
(* below follow the responses those tests expect.                          *)

\* the largest id the account_type table reaches
MaxTypeId == 4

\* the ids the table may hold before the first request
SeededTypeIds == 3

TypeNames == {"Test Account Type 1", "updated value"}

TypeIds == 1 .. MaxTypeId

\* a faulty variant of NotFound: the status and code of another error class
NotFoundAsBadRequest(description) ==
  [name |-> "NotFound", status |-> 400, code |-> "ERRORS.BAD_REQUEST",
   description |-> description]

\* lib/errors/NotFound
NotFound(description) ==
  [name |-> "NotFound", status |-> 404, code |-> "ERRORS.NOT_FOUND",
   description |-> description]

\* the error handler answers with the status of the error and the error
ErrorExchange(method, id, err) ==
  [method |-> method, id |-> id, status |-> err.status, body |-> err]

\* AUTO_INCREMENT: one more than every id the table has held
NextTypeId ==
  LET used == DOMAIN accountTypes \cup deletedTypes \cup {0}
  IN (CHOOSE m \in used : \A n \in used : n <= m) + 1

InitTypes ==
  /\ tz = 0
  /\ wk = [called |-> FALSE]
  /\ ledger = <<>>
  /\ Idle
  /\ \E ids \in SUBSET (1 .. SeededTypeIds) :
       accountTypes = [id \in ids |-> "seeded"]
  /\ deletedTypes = {}
  /\ api = NoExchange

\* GET /accounts/types
ListTypes ==
  /\ api' = [method |-> "GET", id |-> 0, status |-> 200,
             body |-> {[id |-> id, type |-> accountTypes[id]] : id \in DOMAIN accountTypes}]
  /\ UNCHANGED <<tz, wk, ledger, accountTypes, deletedTypes>>
  /\ UNCHANGED otherVars

\* GET /accounts/types/:id
GetType ==
  /\ \E id \in TypeIds :
       api' = IF id \in DOMAIN accountTypes
              THEN [method |-> "GET", id |-> id, status |-> 200,
                    body |-> [id |-> id, type |-> accountTypes[id]]]
              ELSE ErrorExchange("GET", id, NotFound("account type"))
  /\ UNCHANGED <<tz, wk, ledger, accountTypes, deletedTypes>>
  /\ UNCHANGED otherVars

\* POST /accounts/types
CreateType ==
  /\ NextTypeId <= MaxTypeId
  /\ \E type \in TypeNames :
       /\ accountTypes' = Put(accountTypes, NextTypeId, type)
       /\ api' = [method |-> "POST", id |-> NextTypeId, status |-> 201,
                  body |-> [id |-> NextTypeId]]
  /\ UNCHANGED <<tz, wk, ledger, deletedTypes>>
  /\ UNCHANGED otherVars

\* PUT /accounts/types/:id
UpdateType ==
  /\ \E id \in TypeIds, type \in TypeNames :
       IF id \in DOMAIN accountTypes
       THEN /\ accountTypes' = [accountTypes EXCEPT ![id] = type]
            /\ api' = [method |-> "PUT", id |-> id, status |-> 200,
                       body |-> [id |-> id, type |-> type]]
       ELSE /\ api' = ErrorExchange("PUT", id, NotFound("account type"))
            /\ UNCHANGED accountTypes
  /\ UNCHANGED <<tz, wk, ledger, deletedTypes>>
  /\ UNCHANGED otherVars

\* DELETE /accounts/types/:id
DeleteType ==
  /\ \E id \in TypeIds :
       IF id \in DOMAIN accountTypes
       THEN /\ accountTypes' = [k \in DOMAIN accountTypes \ {id} |-> accountTypes[k]]
            /\ deletedTypes' = deletedTypes \cup {id}
            /\ api' = [method |-> "DELETE", id |-> id, status |-> 204, body |-> <<>>]
       ELSE /\ api' = ErrorExchange("DELETE", id, NotFound("account type"))
            /\ UNCHANGED <<accountTypes, deletedTypes>>
  /\ UNCHANGED <<tz, wk, ledger>>
  /\ UNCHANGED otherVars

NextTypes ==
  \/ ListTypes
  \/ GetType
  \/ CreateType
  \/ UpdateType
  \/ DeleteType

SpecTypes == InitTypes /\ [][NextTypes]_vars

----------------------------------------------------------------------------
(* Properties of the balance accumulator *)

\* reporting has run on the session
Reported == session.used /\ session.periodStartArray # <<>>

PeriodKeys == session.periodStartArray

\* C1: in the rendered report the first period opens with the pre-range
\* opening balance and every later period opens with the closing balance
\* (periodicBalance) of the period before it.
C1_OpeningIsPreviousClosing ==
  Reported =>
    /\ session.periodicOpenningBalance[PeriodKeys[1]] = session.openningBalance
    /\ \A i \in 2 .. Len(PeriodKeys) :
         session.periodicOpenningBalance[PeriodKeys[i]] =
           session.periodicBalance[PeriodKeys[i - 1]]

\* the amounts of the postings document received for period i
PostedIncome(i) ==
  SumSeq([k \in 1 .. Len(session.periodicData[i].incomes) |->
            session.periodicData[i].incomes[k].debit_equiv])
PostedExpense(i) ==
  SumSeq([k \in 1 .. Len(session.periodicData[i].expenses) |->
            session.periodicData[i].expenses[k].credit_equiv])

\* P1 starts on 1 January with opening balance 100, incomes 500 and expenses
\* 200; P2 starts on 1 February with incomes 300 and expenses 400
TwoPeriodScenario ==
  /\ Reported
  /\ PeriodKeys = << <<2023, 1, 1>>, <<2023, 2, 1>> >>
  /\ session.openningBalance = 100
  /\ PostedIncome(1) = 500 /\ PostedExpense(1) = 200
  /\ PostedIncome(2) = 300 /\ PostedExpense(2) = 400

----------------------------------------------------------------------------
(* Properties of the request validation *)

HasQuery(name) == \E i \in 1 .. Len(queries) : queries[i].q = name

\* C3: a request without account_id that reaches either pipeline is rejected
\* with BadRequest (400, ERRORS.BAD_REQUEST); no query is issued and no
\* response is sent.
C3_MissingAccountRejected ==
  req.account_id = 0 =>
    /\ queries = <<>>
    /\ response = NoResponse
    /\ pipeline # "none" =>
         /\ pc = "done"
         /\ errors = <<Thrown([name |-> "BadRequest", status |-> 400,
                               code |-> "ERRORS.BAD_REQUEST"])>>

\* both pipelines have rejected a request without account_id
C3_Witness ==
  /\ req.account_id = 0
  /\ req.route = "document"
  /\ pipeline = "weekly"
  /\ errors # <<>>

\* the range of the request resolves to no period, or runs backwards
BadDateInterval ==
  \/ DaysFromCivil(req.dateFrom) > DaysFromCivil(req.dateTo)
  \/ pipeline = "calendar" /\ getPeriods(req.dateFrom, req.dateTo) = <<>>
  \/ pipeline = "weekly" /\ getWeeks(req.dateFrom, req.dateTo) = <<>>

\* C4: in both modes a request whose range resolves to no period, a range
\* with dateFrom after dateTo included, fails with BadRequest
\* ERRORS.BAD_DATE_INTERVAL, runs no ledger query and returns no result.
C4_BadIntervalRejected ==
  (req.account_id # 0 /\ pipeline # "none" /\ BadDateInterval) =>
    /\ ~HasQuery("queryIncomeExpense")
    /\ response = NoResponse
    /\ (pc = "done" /\ failure = NoError) =>
         \E i \in 1 .. Len(errors) :
           errors[i].err = [name |-> "BadRequest", status |-> 400,
                            code |-> "ERRORS.BAD_DATE_INTERVAL"]

\* C5: in weekly mode the first period starts at dateFrom itself: in the
\* periods kept, in the opening balance query, in the grouping and in the
\* response or the report.
C5_FirstWeekStartsAtDateFrom ==
  (pipeline = "weekly" /\ glb.periods # <<>>) =>
    /\ glb.periods[1].start_date = req.dateFrom
    /\ \A i \in 1 .. Len(queries) :
         queries[i].q = "getOpeningBalanceForDate" => queries[i].args[2] = req.dateFrom
    /\ pc \in {"grouped", "classified"} => chain[1].period.start_date = req.dateFrom
    /\ pc = "resolved" => chain.flows[1].period.start_date = req.dateFrom
    /\ response.kind = "json" => response.body.flows[1].period.start_date = req.dateFrom
    /\ Reported => session.periodStartArray[1] = req.dateFrom

\* a weekly response whose dateFrom, 2024-03-05, is not the start of its week
C5_Witness ==
  /\ pipeline = "weekly"
  /\ response.kind = "json"
  /\ req.dateFrom = <<2024, 3, 5>>
  /\ req.dateTo = <<2024, 3, 20>>
  /\ MomentFormat(StartOfWeek(MomentParse(req.dateFrom))) = <<2024, 3, 3>>

----------------------------------------------------------------------------
(* Properties of the weekly period resolver *)

\* the local calendar days a week window starts and ends on
StartDay(week) == LocalDay(week.start_date[1])
EndDay(week) == LocalDay(week.end_date[1])

\* C6: for every dateFrom <= dateTo getWeeks returns a non-empty list of
\* windows, strictly ordered by start, pairwise non-overlapping, with
\* successive starts exactly 7 days apart, holding a window for every
\* week-aligned start that is <= dateTo and none beyond, and covering every
\* day of [dateFrom, dateTo].
C6_WeeksCoverRange ==
  (wk.called /\ DateLE(wk.dateFrom, wk.dateTo)) =>
    LET weeks == wk.weeks
        from == DaysFromCivil(wk.dateFrom)
        to == DaysFromCivil(wk.dateTo)
    IN /\ Len(weeks) >= 1
       /\ \A i \in 1 .. Len(weeks) :
            /\ weeks[i].start_date[1] <= weeks[i].end_date[1]
            /\ DayOfWeek(StartDay(weeks[i])) = 0
            /\ StartDay(weeks[i]) <= to
       /\ \A i \in 1 .. (Len(weeks) - 1) :
            /\ weeks[i].end_date[1] < weeks[i + 1].start_date[1]
            /\ weeks[i + 1].start_date[1] - weeks[i].start_date[1]
                 = DaysPerWeek * HoursPerDay
       /\ \A d \in (from - DayOfWeek(from)) .. to :
            DayOfWeek(d) = 0 => \E i \in 1 .. Len(weeks) : StartDay(weeks[i]) = d
       /\ \A d \in from .. to :
            \E i \in 1 .. Len(weeks) : StartDay(weeks[i]) <= d /\ d <= EndDay(weeks[i])

----------------------------------------------------------------------------
(* Properties of the grouping and of the failure path *)

Occurrences(seq, x) == Cardinality({k \in 1 .. Len(seq) : seq[k] = x})

\* the postings of period i that document received
PeriodPostings(i) ==
  SelectSeq(rows, LAMBDA p :
    \/ Occurrences(session.periodicData[i].incomes, p) > 0
    \/ Occurrences(session.periodicData[i].expenses, p) > 0)

\* the first posting of the list that carries an origin and the label
Producer(postings, label) ==
  postings[CHOOSE k \in 1 .. Len(postings) :
    /\ postings[k].origin_id # 0 /\ postings[k].transactionType = label
    /\ \A j \in 1 .. (k - 1) :
         ~(postings[j].origin_id # 0 /\ postings[j].transactionType = label)]

\* every label at most once; every value the total of the producer's origin
SummaryOf(list, postings, all, amount) ==
  /\ \A a, b \in 1 .. Len(list) : a # b => list[a].transfer_type # list[b].transfer_type
  /\ \A a \in 1 .. Len(list) :
       /\ \E k \in 1 .. Len(postings) :
            postings[k].origin_id # 0 /\ postings[k].transactionType = list[a].transfer_type
       /\ list[a].value =
            SumSeq([k \in 1 .. Len(all) |->
                      IF all[k].origin_id = Producer(postings, list[a].transfer_type).origin_id
                      THEN all[k][amount] ELSE 0])

\* C7: after groupingResult the income list and the expense list of every
\* period hold each transfer_type label at most once, and the value of an
\* entry is the sum of debit_equiv (incomes) or credit_equiv (expenses) of
\* all the period's postings that share the origin_id of the posting that
\* produced the entry.
C7_SummaryPerOrigin ==
  Reported =>
    \A i \in 1 .. Len(PeriodKeys) :
      /\ SummaryOf(session.summationIncome[PeriodKeys[i]],
                   session.periodicData[i].incomes, PeriodPostings(i), Debit)
      /\ SummaryOf(session.summationExpense[PeriodKeys[i]],
                   session.periodicData[i].expenses, PeriodPostings(i), Credit)

\* a period with two income postings of one origin, summarised in one entry
C7_Witness ==
  /\ Reported
  /\ \E i \in 1 .. Len(PeriodKeys) :
       LET incomes == session.periodicData[i].incomes
       IN /\ Len(incomes) = 2
          /\ incomes[1].origin_id = incomes[2].origin_id
          /\ session.summationIncome[PeriodKeys[i]] =
               <<[transfer_type |-> incomes[1].transactionType,
                  value |-> incomes[1].debit_equiv + incomes[2].debit_equiv]>>

\* C8: when a query or the rendering of a request fails, the error reaches
\* the next handler unmodified and exactly once, no success response is sent,
\* and no later stage of the pipeline runs.
C8_FailureReachesNextOnce ==
  failure # NoError =>
    /\ errors = <<[via |-> "next", err |-> failure]>>
    /\ response = NoResponse
    /\ pc = "done"
    /\ failure = DbError => trace = <<>>
    /\ failure = RenderError => trace[Len(trace)] = "render"

\* the ledger query of a request has failed
C8_Witness ==
  /\ failure = DbError
  /\ HasQuery("queryIncomeExpense")
  /\ errors # <<>>

\* the position of a posting in the result of queryIncomeExpense
RowIndex(p) == CHOOSE k \in 1 .. Len(rows) : rows[k] = p

\* the flows list a pipeline hands over
ResultFlows ==
  IF response.kind = "json" THEN response.body.flows
  ELSE IF pc = "resolved" THEN chain.flows
  ELSE <<>>

\* C10: groupByPeriod returns one bucket per resolved period, in the order of
\* the periods; in calendar mode a bucket holds exactly the postings whose
\* period_id is the period's id, in retrieval order, so that a posting
\* matching no period is in no bucket and no posting is in two buckets; the
\* flows of the result have one {period, incomes, expenses} entry per period.
C10_OneBucketPerPeriod ==
  /\ pc = "grouped" =>
       /\ Len(chain) = Len(glb.periods)
       /\ \A i \in 1 .. Len(chain) :
            /\ DOMAIN chain[i] = {"period", "flows"}
            /\ chain[i].period = glb.periods[i]
       /\ pipeline = "calendar" =>
            /\ \A i \in 1 .. Len(chain), k \in 1 .. Len(rows) :
                 Occurrences(chain[i].flows, rows[k]) =
                   IF rows[k].period_id = glb.periods[i].id THEN 1 ELSE 0
            /\ \A i \in 1 .. Len(chain) :
                 LET bucket == chain[i].flows
                 IN /\ \A a \in 1 .. Len(bucket) : Occurrences(rows, bucket[a]) = 1
                    /\ \A a, b \in 1 .. Len(bucket) :
                         a < b => RowIndex(bucket[a]) < RowIndex(bucket[b])
            /\ \A k \in 1 .. Len(rows) :
                 Cardinality({i \in 1 .. Len(chain) :
                                Occurrences(chain[i].flows, rows[k]) > 0}) <= 1
  /\ (pipeline # "none" /\ ResultFlows # <<>>) =>
       /\ Len(ResultFlows) = Len(glb.periods)
       /\ \A i \in 1 .. Len(ResultFlows) :
            /\ DOMAIN ResultFlows[i] = {"period", "incomes", "expenses"}
            /\ ResultFlows[i].period = glb.periods[i]

\* a calendar response: one posting was bucketed, one matched no period
C10_Witness ==
  /\ pipeline = "calendar"
  /\ response.kind = "json"
  /\ \E k \in 1 .. Len(rows) :
       \A i \in 1 .. Len(glb.periods) : glb.periods[i].id # rows[k].period_id
  /\ \E i \in 1 .. Len(ResultFlows) : ResultFlows[i].incomes # <<>>

----------------------------------------------------------------------------
(* Properties of the account-types API *)

----------------------------------------------------------------------------
(* Properties of the weekly grouping and of the classification *)

\* the calendar days a period, a week window or a posting stands for
FirstDayOf(period) ==
  IF IsDateString(period.start_date) THEN DaysFromCivil(period.start_date)
  ELSE LocalDay(period.start_date[1])
LastDayOf(period) == LocalDay(period.end_date[1])
PostingDay(posting) == LocalDay(posting.trans_date[1])

\* C11: in the weekly pipeline a retrieved posting is in a week's bucket if
\* and only if start_date <= trans_date <= end_date of that week, so every
\* retrieved posting dated within [dateFrom, dateTo] is in exactly one bucket.
C11_WeeklyBucketsByDate ==
  (pipeline = "weekly" /\ pc = "grouped") =>
    /\ \A i \in 1 .. Len(chain), k \in 1 .. Len(rows) :
         Occurrences(chain[i].flows, rows[k]) =
           IF /\ FirstDayOf(glb.periods[i]) <= PostingDay(rows[k])
              /\ PostingDay(rows[k]) <= LastDayOf(glb.periods[i])
           THEN 1 ELSE 0
    /\ \A k \in 1 .. Len(rows) :
         (/\ DaysFromCivil(req.dateFrom) <= PostingDay(rows[k])
          /\ PostingDay(rows[k]) <= DaysFromCivil(req.dateTo)) =>
           Cardinality({i \in 1 .. Len(chain) :
                          Occurrences(chain[i].flows, rows[k]) > 0}) = 1

\* the position of a posting in a bucket
BucketIndex(bucket, p) == CHOOSE k \in 1 .. Len(bucket) : bucket[k] = p

\* list holds the wanted postings of the bucket, each once, in the order of
\* the bucket, and nothing else
FilteredFrom(list, bucket, wanted) ==
  /\ \A k \in 1 .. Len(bucket) :
       Occurrences(list, bucket[k]) = IF bucket[k] \in wanted THEN 1 ELSE 0
  /\ \A a \in 1 .. Len(list) : Occurrences(bucket, list[a]) = 1
  /\ \A a, b \in 1 .. Len(list) :
       a < b => BucketIndex(bucket, list[a]) < BucketIndex(bucket, list[b])

\* C12: groupingIncomeExpenseByPeriod filters every bucket twice,
\* independently: a posting is in incomes iff debit_equiv > 0 and in expenses
\* iff credit_equiv > 0 (in both when both are positive, in neither when none
\* is); the period and the order of the postings are kept.
C12_IndependentFilters ==
  [][(pc = "grouped" /\ pc' = "classified") =>
       /\ Len(chain') = Len(chain)
       /\ \A i \in 1 .. Len(chain) :
            LET bucket == chain[i].flows
            IN /\ DOMAIN chain'[i] = {"period", "incomes", "expenses"}
               /\ chain'[i].period = chain[i].period
               /\ FilteredFrom(chain'[i].incomes, bucket,
                               {bucket[k] : k \in {j \in 1 .. Len(bucket) :
                                                     bucket[j].debit_equiv > 0}})
               /\ FilteredFrom(chain'[i].expenses, bucket,
                               {bucket[k] : k \in {j \in 1 .. Len(bucket) :
                                                     bucket[j].credit_equiv > 0}})]_vars

\* a classified period with a posting on both sides and a posting on neither
C12_Witness ==
  /\ pc = "classified"
  /\ pipeline = "calendar"
  /\ \E i \in 1 .. Len(chain) :
       /\ \E a \in 1 .. Len(chain[i].incomes) :
            Occurrences(chain[i].expenses, chain[i].incomes[a]) = 1
       /\ \E k \in 1 .. Len(rows) :
            /\ rows[k].period_id = chain[i].period.id
            /\ rows[k].debit_equiv = 0 /\ rows[k].credit_equiv = 0

----------------------------------------------------------------------------
(* Properties of the totals and of the first-period rule *)

\* every posting has an origin, and two postings have the same origin exactly
\* when they have the same label
OneToOne(postings) ==
  /\ \A a \in 1 .. Len(postings) : postings[a].origin_id # 0
  /\ \A a, b \in 1 .. Len(postings) :
       (postings[a].origin_id = postings[b].origin_id)
         <=> (postings[a].transactionType = postings[b].transactionType)

\* C13: when, within a period, origins and labels are one-to-one and every
\* posting has an origin, the income total used for the balance is the sum of
\* debit_equiv over the period's income postings and the expense total the
\* sum of credit_equiv over its expense postings.
C13_TotalsKeepEveryPosting ==
  Reported =>
    \A i \in 1 .. Len(PeriodKeys) :
      OneToOne(PeriodPostings(i)) =>
        /\ session.sum_incomes[PeriodKeys[i]] = PostedIncome(i)
        /\ session.sum_expense[PeriodKeys[i]] = PostedExpense(i)

\* a period with income postings of two origins under two labels
C13_Witness ==
  /\ Reported
  /\ \E i \in 1 .. Len(PeriodKeys) :
       LET incomes == session.periodicData[i].incomes
       IN /\ OneToOne(PeriodPostings(i))
          /\ Len(incomes) = 2
          /\ incomes[1].origin_id # incomes[2].origin_id
          /\ session.sum_incomes[PeriodKeys[i]] =
               incomes[1].debit_equiv + incomes[2].debit_equiv

\* the rule of C14 on the period-start list: with a list that begins on 1
\* January, every period that starts on 1 January; otherwise the period whose
\* start is the first entry
FirstByRule(i) ==
  LET reference == PeriodKeys[1]
      period == PeriodKeys[i]
  IN IF reference[2] = 1 /\ reference[3] = 1
     THEN period[2] = 1 /\ period[3] = 1
     ELSE period = reference

\* C14: a period opens with the pre-range opening balance, and closes from it,
\* exactly when it is a first period by the rule (1 January of any year when
\* the list begins on 1 January, else the same day, month and year as the
\* first entry); every other period opens with the closing balance of the
\* entry before it.
C14_FirstPeriodRule ==
  Reported =>
    \A i \in 1 .. Len(PeriodKeys) :
      LET before == IF FirstByRule(i) THEN session.openningBalance
                    ELSE session.periodicBalance[PeriodKeys[i - 1]]
      IN /\ session.periodicOpenningBalance[PeriodKeys[i]] = before
         /\ session.periodicBalance[PeriodKeys[i]] =
              (before + session.sum_incomes[PeriodKeys[i]])
                - session.sum_expense[PeriodKeys[i]]

----------------------------------------------------------------------------
(* Properties of the labelled report *)

\* labelization has run on the session
Labelled == Reported /\ \E k \in 1 .. Len(trace) : trace[k] = "labelization"

RECURSIVE SumOver(_, _)
SumOver(f, keys) ==
  IF keys = {} THEN 0
  ELSE LET k == CHOOSE x \in keys : TRUE
       IN f[k] + SumOver(f, keys \ {k})

\* what labelization leaves for one side of period i: labels is the
\* report-wide label list, row the label -> value map of the period, total the
\* scalar of the period, summary the period's summary list, postings the
\* period's postings of that side, used the total the balance was computed from
LabelledSide(labels, row, total, summary, postings, used, all, amount) ==
  /\ \A a, b \in 1 .. Len(labels) : a # b => labels[a] # labels[b]
  /\ DOMAIN row \subseteq {labels[a] : a \in 1 .. Len(labels)}
  /\ \A a \in 1 .. Len(labels) :
       IF \E k \in 1 .. Len(postings) : postings[k].transactionType = labels[a]
       THEN /\ labels[a] \in DOMAIN row
            /\ \E j \in 1 .. Len(summary) :
                 /\ summary[j].transfer_type = labels[a]
                 /\ summary[j].value = row[labels[a]]
            /\ OneToOne(all) =>
                 row[labels[a]] =
                   SumSeq([k \in 1 .. Len(postings) |->
                             IF postings[k].transactionType = labels[a]
                             THEN postings[k][amount] ELSE 0])
       ELSE labels[a] \notin DOMAIN row
  /\ total = SumOver(row, DOMAIN row)
  /\ total = used

\* C17: after labelization, for every period and every label of the
\* deduplicated report-wide income label list, incomes[period][label] is the
\* period's summed value for the label and is absent when the period has no
\* posting with the label; totalIncomes[period] is the sum of
\* incomes[period][label] over the labels and is the income total the balance
\* was computed from; the same holds for the expenses.
C17_LabelledTotals ==
  Labelled =>
    \A i \in 1 .. Len(PeriodKeys) :
      LET period == PeriodKeys[i]
      IN /\ LabelledSide(session.incomesLabels, session.incomes[period],
                         session.totalIncomes[period], session.summationIncome[period],
                         session.periodicData[i].incomes, session.sum_incomes[period],
                         PeriodPostings(i), Debit)
         /\ LabelledSide(session.expensesLabels, session.expenses[period],
                         session.totalExpenses[period], session.summationExpense[period],
                         session.periodicData[i].expenses, session.sum_expense[period],
                         PeriodPostings(i), Credit)

\* a labelled report of two periods whose incomes carry different labels
C17_Witness ==
  /\ Labelled
  /\ Len(session.incomesLabels) = 2
  /\ \E i, j \in 1 .. Len(PeriodKeys) :
       /\ session.incomesLabels[1] \in DOMAIN session.incomes[PeriodKeys[i]]
       /\ session.incomesLabels[2] \notin DOMAIN session.incomes[PeriodKeys[i]]
       /\ session.incomesLabels[2] \in DOMAIN session.incomes[PeriodKeys[j]]
       /\ session.totalIncomes[PeriodKeys[j]] > 0

----------------------------------------------------------------------------
(* The by-service report *)

\* the payments of the cash table the by-service request selects
Selected ==
  {k \in 1 .. Len(cash) : PaymentSelected(cash[k], ServiceDateFrom, ServiceDateTo)}

NoCashRows == pipeline = "byService" /\ Selected = {}

\* C19: when the cash query of the by-service report returns no rows, the
\* service-name query and the aggregation query are never issued, the data
\* holds no matrix and no grand total, and the report is rendered and sent
\* with empty aggregates; only the cash query or the rendering can fail.
C19_EmptyCashStillRenders ==
  NoCashRows =>
    /\ ~HasQuery("serviceSql")
    /\ ~HasQuery("serviceAggregationSql")
    /\ "matrix" \notin DOMAIN data
    /\ "aggregates" \in DOMAIN data => data.aggregates = <<>>
    /\ (failure # NoError /\ "rows" \in DOMAIN data) => failure = RenderError
    /\ (pc = "done" /\ failure = NoError) =>
         /\ errors = <<>>
         /\ trace = <<"render">>
         /\ response.kind = "document"
         /\ response.body.aggregates = <<>>
         /\ "matrix" \notin DOMAIN response.body

\* a report over a cash table whose payments are all left out was sent
C19_Witness ==
  /\ NoCashRows
  /\ cash # <<>>
  /\ pc = "done"
  /\ response.kind = "document"
  /\ response.body.aggregates = <<>>

\* the payment a matrix line was built from, by its reference
PaymentOf(line) == cash[CHOOSE k \in Selected : cash[k].reference = line[1].number]

DistinctServiceNames == {cash[k].name : k \in Selected}

\* the service columns of a line that hold a value
ServiceCells(line) == {j \in 3 .. (Len(line) - 1) : line[j] # Null}

\* the cash amounts of the first i lines, added up
RunningTotal(matrix, i) ==
  SumSeq([k \in 1 .. i |-> PaymentOf(matrix[k]).cashAmount])

HasMatrix == pipeline = "byService" /\ "matrix" \in DOMAIN data

\* C18: the matrix of the by-service report has one line per selected payment;
\* a line has (number of distinct service names) + 3 cells: the reference, the
\* patient, one cell per service in alphabetical order of which only the one
\* of the payment's own service is not null and holds the cash amount, and
\* the sum of the cash amounts of the lines up to this one; the entry
\* appended to the aggregates is the running total of the last line.
C18_ServiceMatrix ==
  HasMatrix =>
    LET matrix == data.matrix
        services == data.services
    IN /\ Len(matrix) = Cardinality(Selected)
       /\ {matrix[i][1].number : i \in 1 .. Len(matrix)} =
            {cash[k].reference : k \in Selected}
       /\ services = SelectSeq(ServiceNamesInOrder, LAMBDA n : n \in DistinctServiceNames)
       /\ \A i \in 1 .. Len(matrix) :
            LET line == matrix[i]
                payment == PaymentOf(line)
            IN /\ Len(line) = Cardinality(DistinctServiceNames) + 3
               /\ line[1] = Number(payment.reference)
               /\ line[2] = Text(payment.display_name)
               /\ ServiceCells(line) =
                    {j \in 3 .. (Len(line) - 1) : services[j - 2] = payment.name}
               /\ Cardinality(ServiceCells(line)) = 1
               /\ \A j \in ServiceCells(line) : line[j] = Number(payment.cashAmount)
               /\ line[Len(line)] = Number(RunningTotal(matrix, i))
       /\ "aggregates" \in DOMAIN data =>
            data.aggregates[Len(data.aggregates)] =
              [totalCashIncome |-> RunningTotal(matrix, Len(matrix))]

\* a report of two payments of one day and two services was sent: reference
\* 10 comes before reference 3, and the second line totals 5 + 40
C18_Witness ==
  /\ HasMatrix
  /\ pc = "done"
  /\ response.kind = "document"
  /\ Len(data.matrix) = 2
  /\ data.services = <<"Administration", "Surgery">>
  /\ data.matrix[1] = <<Number(10), Text("Patient A"), Number(5), Null, Number(5)>>
  /\ data.matrix[2] = <<Number(3), Text("Patient B"), Null, Number(40), Number(45)>>
  /\ data.aggregates[3] = [totalCashIncome |-> 45]

----------------------------------------------------------------------------
(* The order of the queries *)

\* the queries of each pipeline, in the order of its promise chain
QueryOrder ==
  CASE pipeline = "calendar" ->
         <<"getPeriods", "getOpeningBalanceForDate", "queryIncomeExpense">>
    [] pipeline = "weekly" -> <<"getOpeningBalanceForDate", "queryIncomeExpense">>
    [] pipeline = "byService" ->
         <<"cashflowByServiceSql", "serviceSql", "serviceAggregationSql">>
    [] OTHER -> <<>>

Issued == [i \in 1 .. Len(queries) |-> queries[i].q]

\* the query a request waits for at a position of its chain
Waiting(at) == at \in {"periods", "balance", "ledger", "cash", "services", "aggregates"}
Awaited(at) ==
  CASE at = "periods" -> "getPeriods"
    [] at = "balance" -> "getOpeningBalanceForDate"
    [] at = "ledger" -> "queryIncomeExpense"
    [] at = "cash" -> "cashflowByServiceSql"
    [] at = "services" -> "serviceSql"
    [] OTHER -> "serviceAggregationSql"

\* C15: the queries of a request are issued in the fixed order of its
\* pipeline, each at most once; the only query in flight is the last one
\* issued; a step issues at most one query, and it does so either at the start
\* of the request or in the callback that received the previous query's
\* result, never after a failure.
C15_QueriesInSequence ==
  /\ [](/\ Len(queries) <= Len(QueryOrder)
        /\ Issued = SubSeq(QueryOrder, 1, Len(queries))
        /\ Waiting(pc) => (queries # <<>> /\ Issued[Len(queries)] = Awaited(pc))
        /\ failure # NoError => ~Waiting(pc))
  /\ [][queries' # queries =>
          /\ Len(queries') = Len(queries) + 1
          /\ SubSeq(queries', 1, Len(queries)) = queries
          /\ IF queries = <<>> THEN pc = "start" ELSE Waiting(pc)
          /\ Waiting(pc')
          /\ failure = NoError /\ failure' = NoError]_vars

\* a calendar report whose three queries were answered one after another
C15_Witness ==
  /\ pipeline = "calendar"
  /\ Issued = <<"getPeriods", "getOpeningBalanceForDate", "queryIncomeExpense">>
  /\ pc = "done"
  /\ response # NoResponse

----------------------------------------------------------------------------
(* The generic voucher kits *)

\* the cashboxes and the accounts the form offers; account 10 is a cashbox's
\* own account
Cashboxes ==
  {[id |-> 1, account_id |-> 10, currency_id |-> 1],
   [id |-> 2, account_id |-> 11, currency_id |-> 2]}
Accounts == {[id |-> 10], [id |-> 20], [id |-> 30]}
KitAmounts == {0 - 5, 0, 1, 250}
Tools == {"generic_income", "generic_expense"}

\* how many times the import button is pressed
MaxImports == 2

\* a faulty variant of IncomeTransactionRows: the sides are exchanged
IncomeRowsExchanged(params, amount) ==
  <<[account_id |-> params.account.id, debit |-> amount, credit |-> 0],
    [account_id |-> params.cashbox.account_id, debit |-> 0, credit |-> amount]>>

\* generateTransactionRows of the generic-income kit; a row carries the fields
\* the kit assigns to the blank voucher row
IncomeTransactionRows(params, amount) ==
  <<[account_id |-> params.cashbox.account_id, debit |-> amount, credit |-> 0],
    [account_id |-> params.account.id, debit |-> 0, credit |-> amount]>>

\* generateTransactionRows of the generic-expense kit
ExpenseTransactionRows(params, amount) ==
  <<[account_id |-> params.account.id, debit |-> amount, credit |-> 0],
    [account_id |-> params.cashbox.account_id, debit |-> 0, credit |-> amount]>>

\* the kit is open with the form as the user left it
InitKit ==
  /\ tz = 0
  /\ wk = [called |-> FALSE]
  /\ ledger = <<>>
  /\ NoAccountTypes
  /\ NoRequest
  /\ NoPair
  /\ NoExit
  /\ kit \in [tool : Tools, amount : KitAmounts, cashbox : Cashboxes,
              account : Accounts, description : {"text"}, invalid : BOOLEAN]
  /\ modal = [open |-> TRUE, imports |-> 0]

\* submit of GenericIncomeKitController
SubmitIncome ==
  /\ kit.tool = "generic_income"
  /\ modal.open
  /\ modal.imports < MaxImports
  /\ IF kit.invalid
     THEN modal' = [modal EXCEPT !.imports = @ + 1]
     ELSE LET bundle == IncomeTransactionRows(
                          [cashbox |-> kit.cashbox, account |-> kit.account], kit.amount)
          IN modal' = [open |-> FALSE, imports |-> modal.imports + 1,
                       result |-> [rows |-> bundle, description |-> kit.description,
                                   type_id |-> "GENERIC_INCOME",
                                   currency_id |-> kit.cashbox.currency_id]]
  /\ UNCHANGED <<tz, wk, ledger, typeVars, cashVars, pairVars, exitVars, kit>>

\* submit of GenericExpenseKitController
SubmitExpense ==
  /\ kit.tool = "generic_expense"
  /\ modal.open
  /\ modal.imports < MaxImports
  /\ IF kit.invalid
     THEN modal' = [modal EXCEPT !.imports = @ + 1]
     ELSE LET bundle == ExpenseTransactionRows(
                          [cashbox |-> kit.cashbox, account |-> kit.account], kit.amount)
          IN modal' = [open |-> FALSE, imports |-> modal.imports + 1,
                       result |-> [rows |-> bundle, description |-> kit.description,
                                   type_id |-> "GENERIC_EXPENSE",
                                   currency_id |-> kit.cashbox.currency_id]]
  /\ UNCHANGED <<tz, wk, ledger, typeVars, cashVars, pairVars, exitVars, kit>>

NextKit ==
  \/ SubmitIncome
  \/ SubmitExpense

SpecKit == InitKit /\ [][NextKit]_vars

\* C20: a kit whose import was pressed over a valid form has closed its modal
\* with two rows, one that debits the amount with credit 0 and one that
\* credits it with debit 0, so that both totals are the amount; the income
\* kit debits the cashbox account and credits the selected account, the
\* expense kit debits the selected account and credits the cashbox account;
\* the currency is the cashbox's. Over an invalid form the modal stays open
\* without a result.
C20_KitRowsBalance ==
  (kit.tool \in Tools /\ modal.imports > 0) =>
    IF kit.invalid
    THEN modal.open /\ "result" \notin DOMAIN modal
    ELSE /\ ~modal.open
         /\ modal.imports = 1
         /\ Len(modal.result.rows) = 2
         /\ SumSeq([i \in 1 .. 2 |-> modal.result.rows[i].debit]) = kit.amount
         /\ SumSeq([i \in 1 .. 2 |-> modal.result.rows[i].credit]) = kit.amount
         /\ modal.result.currency_id = kit.cashbox.currency_id
         /\ LET debited == IF kit.tool = "generic_income"
                           THEN kit.cashbox.account_id ELSE kit.account.id
                credited == IF kit.tool = "generic_income"
                            THEN kit.account.id ELSE kit.cashbox.account_id
            IN \E d, c \in {1, 2} :
                 /\ d # c
                 /\ modal.result.rows[d] =
                      [account_id |-> debited, debit |-> kit.amount, credit |-> 0]
                 /\ modal.result.rows[c] =
                      [account_id |-> credited, debit |-> 0, credit |-> kit.amount]

\* an income kit has closed over a valid form of 250 for an account that is
\* not the cashbox's
C20_Witness ==
  /\ kit.tool = "generic_income"
  /\ ~modal.open
  /\ kit.amount = 250
  /\ kit.account.id = 20
  /\ modal.result.rows[1].account_id = kit.cashbox.account_id
  /\ modal.result.rows[1].debit = 250

----------------------------------------------------------------------------
(* Requests in progress together *)

\* the requests in progress together
RequestIds == {1, 2}

\* the requests taken together: a report by month, a document by month and a
\* document by week, over two ranges
PairRequests ==
  {q \in Requests :
     /\ q.account_id # 0
     /\ \/ /\ q.route \in {"report", "document"} /\ q.weekly = "absent"
           /\ <<q.dateFrom, q.dateTo>> = << <<2023, 1, 1>>, <<2023, 2, 28>> >>
        \/ /\ q.route = "document" /\ q.weekly = "1"
           /\ <<q.dateFrom, q.dateTo>> = << <<2023, 1, 15>>, <<2023, 2, 10>> >>}

\* the sample tables that hold postings of both ranges
PairLedgers == {t \in SampleLedgers : Len(t) > 2}

\* the parameters of a request as its processing function reads them
DateFromOf(query) == FormatDate(query.dateFrom)
DateToOf(query) == FormatDate(query.dateTo)
CallsWeeklyFor(query) ==
  \/ query.route = "weeklyReport"
  \/ query.route = "document" /\ ParseIntTruthy(query.weekly)
WeeklyArgumentOf(query) == IF CallsWeeklyFor(query) THEN query.weekly ELSE "absent"
WeeklyPeriodsOf(query) ==
  LET weeks == getWeeks(DateFromOf(query), DateToOf(query))
  IN [weeks EXCEPT ![1].start_date = DateFromOf(query)]

\* a faulty variant of SlotOf: glb and session are objects of the module
SlotOfModule(r) == 1

\* const glb = {} and const session = {} are allocated by the call that
\* serves the request
SlotOf(r) == r

NewGlb == [periods |-> <<>>, openningBalance |-> [balance |-> 0]]

InitPair ==
  /\ tz \in TimeZones
  /\ wk = [called |-> FALSE]
  /\ ledger \in PairLedgers
  /\ NoAccountTypes
  /\ NoRequest
  /\ NoKit
  /\ NoExit
  /\ pair \in [RequestIds ->
                 {[query |-> q, at |-> "start", balance |-> 0, promise |-> <<>>,
                   response |-> NoResponse, overlapped |-> FALSE] : q \in PairRequests}]
  /\ store = [s \in RequestIds |-> [glb |-> NewGlb, session |-> NoSession]]

\* another request is between its first step and its last
Overlaps(r) ==
  \E o \in RequestIds \ {r} : pair[o].at \notin {"start", "done"}

\* request r moves on: its promise value, its position, and whether it did
\* so while another request was in progress
Advance(r, at, promise) ==
  [pair EXCEPT ![r].at = at, ![r].promise = promise,
               ![r].overlapped = @ \/ Overlaps(r)]

pairEnv == <<tz, wk, ledger, typeVars, cashVars, kitVars, exitVars>>

\* the handler and its processing function up to the first query
PairStart(r) ==
  /\ pair[r].at = "start"
  /\ LET query == pair[r].query
         weekly == CallsWeeklyFor(query)
     IN /\ store' = [store EXCEPT
              ![SlotOf(r)].glb =
                 IF weekly THEN [NewGlb EXCEPT !.periods = WeeklyPeriodsOf(query)]
                 ELSE NewGlb,
              ![SlotOf(r)].session =
                 IF query.route = "document" THEN SessionFor(query) ELSE @]
        /\ pair' = Advance(r, IF weekly THEN "balance" ELSE "periods", <<>>)
  /\ UNCHANGED pairEnv

\* the callback of getPeriods
PairPeriods(r) ==
  /\ pair[r].at = "periods"
  /\ store' = [store EXCEPT ![SlotOf(r)].glb.periods =
                 getPeriods(DateFromOf(pair[r].query), DateToOf(pair[r].query))]
  /\ pair' = Advance(r, "balance", <<>>)
  /\ UNCHANGED pairEnv

\* the object either pipeline keeps for a balance it received
BalanceObject(query, balance) ==
  IF CallsWeeklyFor(query)
  THEN [balance |-> balance, account_id |-> query.account_id]
  ELSE [balance |-> balance]

\* the callback of getOpeningBalanceForDate
PairBalance(r) ==
  /\ pair[r].at = "balance"
  /\ \E balance \in OpeningBalances :
       /\ store' = [store EXCEPT ![SlotOf(r)].glb.openningBalance =
                      BalanceObject(pair[r].query, balance)]
       /\ pair' = [Advance(r, "ledger", <<>>) EXCEPT ![r].balance = balance]
  /\ UNCHANGED pairEnv

\* the callback of queryIncomeExpense: groupByPeriod over glb.periods
PairLedger(r) ==
  /\ pair[r].at = "ledger"
  /\ LET query == pair[r].query
         result == queryIncomeExpense(ledger, query.account_id,
                                      DateFromOf(query), DateToOf(query))
     IN pair' = Advance(r, "grouped",
                  groupByPeriod(store[SlotOf(r)].glb.periods, result,
                                WeeklyArgumentOf(query)))
  /\ UNCHANGED <<pairEnv, store>>

\* .then(groupingIncomeExpenseByPeriod)
PairClassify(r) ==
  /\ pair[r].at = "grouped"
  /\ pair' = Advance(r, "classified", groupingIncomeExpenseByPeriod(pair[r].promise))
  /\ UNCHANGED <<pairEnv, store>>

\* the last callback of the processing function reads glb.openningBalance
PairResolve(r) ==
  /\ pair[r].at = "classified"
  /\ pair' = Advance(r, "resolved",
               [openningBalance |-> store[SlotOf(r)].glb.openningBalance,
                flows |-> pair[r].promise])
  /\ UNCHANGED <<pairEnv, store>>

\* report and weeklyReport: res.status(200).json(result)
PairRespond(r) ==
  /\ pair[r].at = "resolved"
  /\ pair[r].query.route # "document"
  /\ pair' = [Advance(r, "done", <<>>) EXCEPT
                ![r].response = [kind |-> "json", status |-> 200,
                                 body |-> pair[r].promise]]
  /\ UNCHANGED <<pairEnv, store>>

\* document: .then(reporting) fills the session
PairReporting(r) ==
  /\ pair[r].at = "resolved"
  /\ pair[r].query.route = "document"
  /\ store' = [store EXCEPT ![SlotOf(r)].session = reporting(@, pair[r].promise)]
  /\ pair' = Advance(r, "reported", <<>>)
  /\ UNCHANGED pairEnv

\* document: .then(labelization)
PairLabelization(r) ==
  /\ pair[r].at = "reported"
  /\ store' = [store EXCEPT ![SlotOf(r)].session = labelization(@)]
  /\ pair' = Advance(r, "labelled", <<>>)
  /\ UNCHANGED pairEnv

\* document: .then(() => documentReport.render(session)) renders the session
\* as it is at the call
PairRender(r) ==
  /\ pair[r].at = "labelled"
  /\ pair' = Advance(r, "rendering", store[SlotOf(r)].session)
  /\ UNCHANGED <<pairEnv, store>>

\* document: res.set(result.headers).send(result.report)
PairSend(r) ==
  /\ pair[r].at = "rendering"
  /\ pair' = [Advance(r, "done", <<>>) EXCEPT
                ![r].response = [kind |-> "document", status |-> 200,
                                 body |-> pair[r].promise]]
  /\ UNCHANGED <<pairEnv, store>>

NextPair ==
  \/ \E r \in RequestIds : PairStart(r)
  \/ \E r \in RequestIds : PairPeriods(r)
  \/ \E r \in RequestIds : PairBalance(r)
  \/ \E r \in RequestIds : PairLedger(r)
  \/ \E r \in RequestIds : PairClassify(r)
  \/ \E r \in RequestIds : PairResolve(r)
  \/ \E r \in RequestIds : PairRespond(r)
  \/ \E r \in RequestIds : PairReporting(r)
  \/ \E r \in RequestIds : PairLabelization(r)
  \/ \E r \in RequestIds : PairRender(r)
  \/ \E r \in RequestIds : PairSend(r)

SpecPair == InitPair /\ [][NextPair]_vars

\* what a request answers when it is the only one: its periods, the balance it
\* received, the postings of its account in its range
AlonePeriods(query) ==
  IF CallsWeeklyFor(query) THEN WeeklyPeriodsOf(query)
  ELSE getPeriods(DateFromOf(query), DateToOf(query))

AloneResult(query, balance) ==
  [openningBalance |-> BalanceObject(query, balance),
   flows |-> groupingIncomeExpenseByPeriod(
               groupByPeriod(AlonePeriods(query),
                             queryIncomeExpense(ledger, query.account_id,
                                                DateFromOf(query), DateToOf(query)),
                             WeeklyArgumentOf(query)))]

AloneResponse(query, balance) ==
  IF query.route = "document"
  THEN [kind |-> "document", status |-> 200,
        body |-> labelization(reporting(SessionFor(query), AloneResult(query, balance)))]
  ELSE [kind |-> "json", status |-> 200, body |-> AloneResult(query, balance)]

\* C16: of requests in progress together, however their callbacks interleave,
\* each resolves with the opening balance it received and the flows of its own
\* periods, and answers what it would have answered alone: the session of a
\* document holds the accumulators of its own request only.
C16_RequestsIsolated ==
  \A r \in DOMAIN pair :
    /\ pair[r].at = "resolved" =>
         pair[r].promise = AloneResult(pair[r].query, pair[r].balance)
    /\ pair[r].at = "done" =>
         pair[r].response = AloneResponse(pair[r].query, pair[r].balance)

\* a document by month and a document by week have both been sent after
\* steps taken while the other was in progress, with different balances
C16_Witness ==
  /\ pair # <<>>
  /\ ledger # <<>>
  /\ \A r \in 1 .. 2 : pair[r].at = "done" /\ pair[r].overlapped
  /\ pair[1].query.route = "document" /\ pair[2].query.route = "document"
  /\ pair[1].query.weekly # pair[2].query.weekly
  /\ pair[1].balance # pair[2].balance
  /\ pair[1].response # pair[2].response

----------------------------------------------------------------------------
(* The stock-exit controller *)

\* the depots of the selection modal, by uuid; "undefined" is no depot
Depots == {"depotA", "depotB"}
ExitTypes == {"patient", "service", "depot", "loss"}

\* rows of the stock grid
MaxItems == 2

\* the values vm.validForSubmit takes
Undefined == [type |-> "undefined"]
JsBoolean(b) == [type |-> "boolean", value |-> b]
JsNumber(n) == [type |-> "number", value |-> n]
ToBoolean(v) ==
  CASE v.type = "boolean" -> v.value
    [] v.type = "number" -> v.value # 0
    [] OTHER -> FALSE

\* what the grid lets the user enter in a row; a lot is its uuid, "undefined"
\* a lot object without one
Quantities == {0, 3}
LotChoices == {"undefined", "lot1"}
NewStockItem == [quantity |-> 0, lot |-> "undefined"]

\* vm.movement = {}
EmptyMovement ==
  [date |-> "undefined", entity |-> "undefined", exit_type |-> "undefined",
   description |-> "undefined"]

\* store.data.every(item => item.quantity > 0 && item.lot.uuid)
lotsExists(items) ==
  \A i \in 1 .. Len(items) : items[i].quantity > 0 /\ items[i].lot # "undefined"

\* a faulty variant of checkValidity: the length of the store is not looked at
checkValidityWithoutLength(items) == JsBoolean(lotsExists(items))

\* checkValidity: lotsExists && vm.Stock.store.data.length
checkValidity(items) ==
  IF lotsExists(items) THEN JsNumber(Len(items)) ELSE JsBoolean(FALSE)

\* an entry of the record of what startup has done: the function called, or
\* the modal resolved, and the depot it was called for or resolved with
Call(op, depot) == [op |-> op, depot |-> depot]

\* the controller function has run up to its call of startup
InitExit ==
  /\ tz = 0
  /\ wk = [called |-> FALSE]
  /\ ledger = <<>>
  /\ NoAccountTypes
  /\ NoRequest
  /\ NoPair
  /\ NoKit
  /\ vm = [controller |-> "StockExitController", depot |-> "undefined",
           movement |-> EmptyMovement, validForSubmit |-> Undefined,
           store |-> <<>>, selectableInventories |-> "undefined"]
  /\ cache \in [depot : Depots \cup {"undefined"}]
  /\ ui = [view |-> "exit", cached |-> cache.depot, stage |-> "new",
           modal |-> "closed", find |-> "none", submit |-> "idle",
           flux |-> "none", loading |-> "none",
           notified |-> FALSE, receipt |-> FALSE, log |-> <<>>, last |-> "none"]

exitEnv == <<tz, wk, ledger, typeVars, cashVars, pairVars, kitVars>>

\* the handler name has run: ui.last names it, ui.notified tells whether it
\* called Notify.handleError and ui.receipt whether it opened a receipt modal
Ran(u, name) == [u EXCEPT !.last = name, !.notified = FALSE, !.receipt = FALSE]
RanNotifying(u, name) == [u EXCEPT !.last = name, !.notified = TRUE, !.receipt = FALSE]

\* startup, up to the end of its synchronous part
Startup ==
  /\ ui.stage = "new"
  /\ IF cache.depot # "undefined"
     THEN /\ vm' = [vm EXCEPT
                      !.movement = [EmptyMovement EXCEPT !.date = "now", !.entity = "empty"],
                      !.depot = cache.depot,
                      !.store = <<>>,
                      !.validForSubmit = checkValidity(<<>>)]
          /\ ui' = Ran([ui EXCEPT !.stage = "done", !.loading = cache.depot,
                                  !.log = @ \o <<Call("setupStock", cache.depot),
                                                  Call("loadInventories", cache.depot)>>],
                       "startup")
     ELSE /\ vm' = [vm EXCEPT
                      !.movement = [EmptyMovement EXCEPT !.date = "now", !.entity = "empty"],
                      !.depot = cache.depot]
          /\ ui' = Ran([ui EXCEPT !.stage = "selecting", !.modal = "startup",
                                  !.log = Append(@, Call("openSelectionModal", cache.depot))],
                       "startup")
  /\ UNCHANGED <<exitEnv, cache>>

\* a faulty variant of DepotSelected: the depot is not written to the cache
DepotSelectedUncached(depot) ==
  /\ ui.modal # "closed"
  /\ vm' = [vm EXCEPT !.depot = depot]
  /\ ui' = Ran([ui EXCEPT !.modal = "closed",
                          !.stage = IF ui.modal = "startup" THEN "setup" ELSE @,
                          !.log = IF ui.modal = "startup"
                                  THEN Append(@, Call("resolved", depot)) ELSE @],
               "changeDepot")
  /\ UNCHANGED <<exitEnv, cache>>

\* changeDepot: the callback of Depots.openSelectionModal
DepotSelected(depot) ==
  /\ ui.modal # "closed"
  /\ vm' = [vm EXCEPT !.depot = depot]
  /\ cache' = [cache EXCEPT !.depot = depot]
  /\ ui' = Ran([ui EXCEPT !.modal = "closed",
                          !.stage = IF ui.modal = "startup" THEN "setup" ELSE @,
                          !.log = IF ui.modal = "startup"
                                  THEN Append(@, Call("resolved", depot)) ELSE @],
               "changeDepot")
  /\ UNCHANGED exitEnv

\* the selection modal is dismissed: the promise is rejected and no callback
\* of changeDepot or startup runs
DepotDismissed ==
  /\ ui.modal # "closed"
  /\ ui' = Ran([ui EXCEPT !.modal = "closed",
                          !.stage = IF ui.modal = "startup" THEN "abandoned" ELSE @],
               "dismissed")
  /\ UNCHANGED <<exitEnv, vm, cache>>

\* startup: .then(setupStock)
StartupSetup ==
  /\ ui.stage = "setup"
  /\ vm' = [vm EXCEPT !.store = <<>>]
  /\ ui' = Ran([ui EXCEPT !.stage = "load",
                          !.log = Append(@, Call("setupStock", vm.depot))],
               "setupStock")
  /\ UNCHANGED <<exitEnv, cache>>

\* startup: the last callback, loadInventories(vm.depot) and checkValidity()
StartupLoad ==
  /\ ui.stage = "load"
  /\ vm' = [vm EXCEPT !.validForSubmit = checkValidity(vm.store)]
  /\ ui' = Ran([ui EXCEPT !.stage = "done", !.loading = vm.depot,
                          !.log = Append(@, Call("loadInventories", vm.depot))],
               "startup")
  /\ UNCHANGED <<exitEnv, cache>>

\* loadInventories: the callback of Stock.inventories.read
InventoriesLoaded ==
  /\ ui.loading # "none"
  /\ vm' = [vm EXCEPT !.selectableInventories = ui.loading]
  /\ ui' = Ran([ui EXCEPT !.loading = "none"], "loadInventories")
  /\ UNCHANGED <<exitEnv, cache>>

\* loadInventories: .catch(Notify.handleError)
InventoriesFail ==
  /\ ui.loading # "none"
  /\ ui' = RanNotifying([ui EXCEPT !.loading = "none"], "loadInventories")
  /\ UNCHANGED <<exitEnv, vm, cache>>

\* the page takes the user's input: startup is over, no modal is open and no
\* request is awaited
Interactive ==
  /\ ui.stage = "done"
  /\ ui.modal = "closed"
  /\ ui.find = "none"
  /\ ui.loading = "none"
  /\ ui.submit = "idle"

\* vm.changeDepot, up to the opening of the modal
ChangeDepot ==
  /\ ui.stage \in {"done", "abandoned"}
  /\ ui.modal = "closed"
  /\ ui.find = "none"
  /\ ui.loading = "none"
  /\ ui.submit = "idle"
  /\ ui' = Ran([ui EXCEPT !.modal = "user"], "openSelectionModal")
  /\ UNCHANGED <<exitEnv, vm, cache>>

\* addItems(n)
AddItems(n) ==
  /\ Interactive
  /\ Len(vm.store) + n <= MaxItems
  /\ LET items == vm.store \o [i \in 1 .. n |-> NewStockItem]
     IN vm' = [vm EXCEPT !.store = items, !.validForSubmit = checkValidity(items)]
  /\ ui' = Ran(ui, "addItems")
  /\ UNCHANGED <<exitEnv, cache>>

\* removeItem(item)
RemoveItem(index) ==
  /\ Interactive
  /\ index \in 1 .. Len(vm.store)
  /\ LET items == SubSeq(vm.store, 1, index - 1) \o SubSeq(vm.store, index + 1, Len(vm.store))
     IN vm' = [vm EXCEPT !.store = items, !.validForSubmit = checkValidity(items)]
  /\ ui' = Ran(ui, "removeItem")
  /\ UNCHANGED <<exitEnv, cache>>

\* the user enters a quantity or picks a lot in a row of the grid
EditItem(index, quantity, lot) ==
  /\ Interactive
  /\ index \in 1 .. Len(vm.store)
  /\ vm.store[index] # [quantity |-> quantity, lot |-> lot]
  /\ vm' = [vm EXCEPT !.store[index] = [quantity |-> quantity, lot |-> lot]]
  /\ ui' = Ran(ui, "edit")
  /\ UNCHANGED <<exitEnv, cache>>

\* vm.checkValidity, called from the grid
CheckValidity ==
  /\ Interactive
  /\ vm' = [vm EXCEPT !.validForSubmit = checkValidity(vm.store)]
  /\ ui' = Ran(ui, "checkValidity")
  /\ UNCHANGED <<exitEnv, cache>>

\* selectExitType: configureLoss sets the entity at once, the other types
\* open their modal; the user chooses the type of a movement once
SelectExitType(label) ==
  /\ Interactive
  /\ vm.movement.exit_type = "undefined"
  /\ vm' = [vm EXCEPT !.movement.exit_type = label,
                      !.movement.entity = IF label = "loss" THEN "loss" ELSE @,
                      !.movement.description = label]
  /\ ui' = Ran([ui EXCEPT !.find = IF label = "loss" THEN "none" ELSE label],
               "selectExitType")
  /\ UNCHANGED <<exitEnv, cache>>

\* findPatient, findService, findDepot: the callback of the modal
EntityFound(found) ==
  /\ ui.find # "none"
  /\ vm' = [vm EXCEPT !.movement.entity = IF found THEN ui.find ELSE @]
  /\ ui' = Ran([ui EXCEPT !.find = "none"], "find")
  /\ UNCHANGED <<exitEnv, cache>>

\* submit(form) up to Stock.movements.create; without an exit type the call
\* throws before it changes anything
Submit(invalid) ==
  /\ Interactive
  /\ vm.movement.exit_type # "undefined"
  /\ ui' = IF invalid THEN Ran(ui, "submit")
           ELSE Ran([ui EXCEPT !.submit = "creating", !.flux = vm.movement.exit_type],
                    "submit")
  /\ UNCHANGED <<exitEnv, vm, cache>>

\* submitPatient, submitService, submitDepot, submitLoss: the callback of
\* Stock.movements.create
CreateSucceeds ==
  /\ ui.submit = "creating"
  /\ vm' = [vm EXCEPT !.store = <<>>]
  /\ ui' = [ui EXCEPT !.submit = "created", !.last = "create",
                      !.notified = FALSE, !.receipt = TRUE]
  /\ UNCHANGED <<exitEnv, cache>>

\* what a call of Notify.handleError as a catch callback may do: show the
\* error and return, which fulfils the promise of the chain, or show it and
\* throw it again, which rejects that promise
HandleErrorOutcomes == {"caught", "rejected"}

\* submitPatient, ...: .catch(Notify.handleError)
CreateFails ==
  /\ ui.submit = "creating"
  /\ \E outcome \in HandleErrorOutcomes :
       ui' = RanNotifying([ui EXCEPT !.submit = outcome], "create")
  /\ UNCHANGED <<exitEnv, vm, cache>>

\* submit: .catch(Notify.handleError), reached when the promise of
\* mapExit[...].submit() is rejected
SubmitCatch ==
  /\ ui.submit = "rejected"
  /\ ui' = RanNotifying([ui EXCEPT !.submit = "idle", !.flux = "none"], "submitFailed")
  /\ UNCHANGED <<exitEnv, vm, cache>>

\* submit: the callback of mapExit[...].submit()
SubmitThen ==
  /\ ui.submit \in {"created", "caught"}
  /\ vm' = [vm EXCEPT !.validForSubmit = JsBoolean(FALSE), !.movement = EmptyMovement]
  /\ ui' = Ran([ui EXCEPT !.submit = "idle", !.flux = "none"],
               IF ui.submit = "created" THEN "submitted" ELSE "submitFailed")
  /\ UNCHANGED <<exitEnv, cache>>

NextExit ==
  \/ Startup
  \/ \E depot \in Depots : DepotSelected(depot)
  \/ DepotDismissed
  \/ StartupSetup
  \/ StartupLoad
  \/ InventoriesLoaded
  \/ InventoriesFail
  \/ ChangeDepot
  \/ \E n \in 1 .. MaxItems : AddItems(n)
  \/ \E index \in 1 .. MaxItems : RemoveItem(index)
  \/ \E index \in 1 .. MaxItems, quantity \in Quantities, lot \in LotChoices :
       EditItem(index, quantity, lot)
  \/ CheckValidity
  \/ \E label \in ExitTypes : SelectExitType(label)
  \/ \E found \in BOOLEAN : EntityFound(found)
  \/ \E invalid \in BOOLEAN : Submit(invalid)
  \/ CreateSucceeds
  \/ CreateFails
  \/ SubmitCatch
  \/ SubmitThen

SpecExit == InitExit /\ [][NextExit]_vars

\* the steps a failed movement creation takes: the catch of submitPatient,
\* submitService, submitDepot or submitLoss, and the callback or the catch of
\* submit that follows it
FailureStep ==
  /\ ui.view = "exit"
  /\ \/ ui.submit = "creating" /\ ui'.submit \in HandleErrorOutcomes
     \/ ui.submit \in HandleErrorOutcomes

\* C21: when the movement creation of a submit fails, whatever the exit
\* type, the error is handed to Notify.handleError, and neither that step nor
\* the one after it changes the form: the store keeps its items, no receipt
\* is opened, vm.movement and vm.validForSubmit stay as they were.
C21_FailedSubmitKeepsForm ==
  [][FailureStep =>
       /\ ui.submit \in {"creating", "rejected"} => ui'.notified
       /\ vm'.store = vm.store
       /\ ~ui'.receipt
       /\ vm'.movement = vm.movement
       /\ vm'.validForSubmit = vm.validForSubmit]_vars

\* the store is non-empty and every item in it has a quantity above zero and a
\* selected lot
StoreIsValid ==
  /\ Len(vm.store) > 0
  /\ \A i \in DOMAIN vm.store :
       vm.store[i].quantity > 0 /\ vm.store[i].lot \in LotChoices \ {"undefined"}

\* C22: right after startup and after every addItems, removeItem or
\* checkValidity, vm.validForSubmit is truthy exactly when the store is
\* non-empty and every item has a quantity above zero and a selected lot;
\* right after a successful submit the store is empty and vm.validForSubmit
\* is false.
C22_ValidForSubmitTracksStore ==
  ui.view = "exit" =>
    /\ ui.last \in {"startup", "addItems", "removeItem", "checkValidity"}
         => (ToBoolean(vm.validForSubmit) <=> StoreIsValid)
    /\ ui.last = "submitted"
         => vm.store = <<>> /\ vm.validForSubmit = JsBoolean(FALSE)

\* checkValidity has just found a store of two valid items
C22_Witness ==
  /\ ui.view = "exit"
  /\ ui.last = "checkValidity"
  /\ Len(vm.store) = 2
  /\ StoreIsValid
  /\ ToBoolean(vm.validForSubmit)

\* the calls of setupStock and loadInventories startup has made
SetupCalls == {i \in DOMAIN ui.log : ui.log[i].op \in {"setupStock", "loadInventories"}}

\* C23: startup sets up the stock form and requests the inventories only
\* once a depot is known. With a cached depot it does both in its first step,
\* for that depot, and never opens the selection modal; without one it does
\* them only after the selection modal has resolved, for the depot it
\* resolved with. After startup and after every changeDepot, vm.depot and the
\* cached depot are the same.
C23_StartupWaitsForDepot ==
  (ui.view = "exit" /\ ui.stage # "new") =>
    /\ vm.depot = cache.depot
    /\ ui.modal = "closed" /\ ui.stage \notin {"selecting", "abandoned"}
         => vm.depot \in Depots
    /\ \A i \in SetupCalls : ui.log[i].depot \in Depots
    /\ ui.cached # "undefined" =>
         /\ \E i, j \in SetupCalls :
              ui.log[i].op = "setupStock" /\ ui.log[j].op = "loadInventories"
         /\ \A i \in DOMAIN ui.log :
              ui.log[i].op \in {"setupStock", "loadInventories"} /\ ui.log[i].depot = ui.cached
         /\ ui.modal # "startup"
    /\ ui.cached = "undefined" =>
         \A i \in SetupCalls :
           \E j \in 1 .. i - 1 :
             ui.log[j].op = "resolved" /\ ui.log[j].depot = ui.log[i].depot

\* startup found no cached depot, went on once the modal resolved, and the
\* user has since changed to the other depot
C23_Witness ==
  /\ ui.view = "exit"
  /\ ui.cached = "undefined"
  /\ ui.stage = "done"
  /\ \E i \in SetupCalls : ui.log[i].op = "loadInventories" /\ ui.log[i].depot # vm.depot
  /\ vm.depot = cache.depot
  /\ vm.depot \in Depots

============================================================================
